---- MODULE Spec2Model ----
(***************************************************************************)
(* Model of the model-relationship graph of vscode-laravel-hero:           *)
(*   - ModelGraphService (the PHP scanner and the graph assembler),        *)
(*   - the edge merging of the model-graph webview script.                 *)
(*                                                                         *)
(* A JavaScript string is a sequence of one-character strings, so that the *)
(* string functions of the source (replace, split, includes, trim, sort)   *)
(* are computed character by character.  The JavaScript value `undefined`  *)
(* is the one-element sequence Undefined, which is no character string.    *)
(***************************************************************************)
EXTENDS Integers, Sequences, FiniteSets, TLC

\* ------------------------------------------------------------------
\* Bounds of the model
\* ------------------------------------------------------------------
MaxFiles == 3
MaxFailing == 1
\* The longest relationship list handed to drawEdges on its own.
MaxMerged == 2
\* The most graph requests of one panel.
MaxRequests == 2
\* The most files in the workspace of a panel before it is edited.
MaxPanelFiles == 2
\* The most nodes of a graph delivered to the webview on its own.
MaxNodes == 3
\* The most messages, drags and button clicks the webview on its own takes.
MaxGestures == 3
\* The most zooms, pans and button clicks of the webview from its default view.
MaxZooms == 4
\* The most drags, zooms, pans and clicks between two graphs.
MaxUiGestures == 2

\* ------------------------------------------------------------------
\* Strings
\* ------------------------------------------------------------------
Undefined == <<"undefined">>

Sep == "\\"

\* The characters of the model in the order of their UTF-16 code units.
Ascii ==
    <<" ", "\"", "$", "'", "(", ")", ",", "-", ".", ":", ">",
      "A", "B", "C", "D", "E", "F", "G", "H", "I", "J", "K", "L", "M",
      "N", "O", "P", "Q", "R", "S", "T", "U", "V", "W", "X", "Y", "Z",
      "\\", "_",
      "a", "b", "c", "d", "e", "f", "g", "h", "i", "j", "k", "l", "m",
      "n", "o", "p", "q", "r", "s", "t", "u", "v", "w", "x", "y", "z">>

CharCode(c) == CHOOSE i \in 1..Len(Ascii) : Ascii[i] = c

UpperCase == <<"A", "B", "C", "D", "E", "F", "G", "H", "I", "J", "K", "L", "M",
               "N", "O", "P", "Q", "R", "S", "T", "U", "V", "W", "X", "Y", "Z">>

LowerCase == <<"a", "b", "c", "d", "e", "f", "g", "h", "i", "j", "k", "l", "m",
               "n", "o", "p", "q", "r", "s", "t", "u", "v", "w", "x", "y", "z">>

\* JavaScript truthiness of a string-or-undefined value.
Truthy(s) == s # Undefined /\ s # <<>>

\* a || b
Or(a, b) == IF Truthy(a) THEN a ELSE b

\* a < b for strings, as Array.prototype.sort() without a comparator orders them.
StrLess(a, b) ==
    LET n == IF Len(a) < Len(b) THEN Len(a) ELSE Len(b)
        diff == {i \in 1..n : a[i] # b[i]}
    IN  IF diff = {}
        THEN Len(a) < Len(b)
        ELSE LET d == CHOOSE i \in diff : \A j \in diff : i <= j
             IN  CharCode(a[d]) < CharCode(b[d])

LowerChar(c) ==
    IF \E i \in 1..Len(UpperCase) : UpperCase[i] = c
    THEN LowerCase[CHOOSE i \in 1..Len(UpperCase) : UpperCase[i] = c]
    ELSE c

toLowerCase(s) == [i \in 1..Len(s) |-> LowerChar(s[i])]

startsWith(s, p) == Len(p) <= Len(s) /\ SubSeq(s, 1, Len(p)) = p

endsWith(s, p) == Len(p) <= Len(s) /\ SubSeq(s, Len(s) - Len(p) + 1, Len(s)) = p

\* The positions at which sub occurs in s.
Occurrences(s, sub) ==
    {i \in 1..(Len(s) - Len(sub) + 1) : SubSeq(s, i, i + Len(sub) - 1) = sub}

includes(s, sub) == sub = <<>> \/ Occurrences(s, sub) # {}

\* s.split(sub)[0] for a non-empty sub.
BeforeFirst(s, sub) ==
    IF Occurrences(s, sub) = {}
    THEN s
    ELSE LET k == CHOOSE i \in Occurrences(s, sub) : \A j \in Occurrences(s, sub) : i <= j
         IN  SubSeq(s, 1, k - 1)

\* s.split(c) for a one-character separator c.
RECURSIVE Split(_, _)
Split(s, c) ==
    IF Occurrences(s, <<c>>) = {}
    THEN <<s>>
    ELSE <<BeforeFirst(s, <<c>>)>>
         \o Split(SubSeq(s, Len(BeforeFirst(s, <<c>>)) + 2, Len(s)), c)

\* parts.join(c)
RECURSIVE Join(_, _)
Join(parts, c) ==
    IF parts = <<>> THEN <<>>
    ELSE IF Len(parts) = 1 THEN parts[1]
    ELSE parts[1] \o <<c>> \o Join(Tail(parts), c)

RECURSIVE TrimStart(_)
TrimStart(s) == IF s # <<>> /\ Head(s) = " " THEN TrimStart(Tail(s)) ELSE s

RECURSIVE TrimEnd(_)
TrimEnd(s) ==
    IF s # <<>> /\ s[Len(s)] = " " THEN TrimEnd(SubSeq(s, 1, Len(s) - 1)) ELSE s

trim(s) == TrimEnd(TrimStart(s))

IsQuote(c) == c = "'" \/ c = "\""

\* s.replace(/^['"]|['"]$/g, '')
StripQuotes(s) ==
    LET a == IF s # <<>> /\ IsQuote(Head(s)) THEN Tail(s) ELSE s
    IN  IF a # <<>> /\ IsQuote(a[Len(a)]) THEN SubSeq(a, 1, Len(a) - 1) ELSE a

\* ------------------------------------------------------------------
\* Class-name helpers of ModelGraphService
\* ------------------------------------------------------------------
\* name.replace(/^\\+/, '')
RECURSIVE normalizeClassName(_)
normalizeClassName(name) ==
    IF name # <<>> /\ Head(name) = Sep THEN normalizeClassName(Tail(name)) ELSE name

getClassBaseName(fqcn) ==
    LET parts == Split(normalizeClassName(fqcn), Sep)
    IN  Or(parts[Len(parts)], fqcn)

getNamespace(fqcn) ==
    LET parts == Split(normalizeClassName(fqcn), Sep)
    IN  IF Len(parts) <= 1 THEN Undefined ELSE Join(SubSeq(parts, 1, Len(parts) - 1), Sep)

\* ------------------------------------------------------------------
\* Map objects: a sequence of <<key, value>> entries in insertion order
\* ------------------------------------------------------------------
MapKeys(m) == {m[i][1] : i \in 1..Len(m)}

MapHas(m, k) == k \in MapKeys(m)

MapIndex(m, k) == CHOOSE i \in 1..Len(m) : m[i][1] = k

MapGet(m, k) == IF MapHas(m, k) THEN m[MapIndex(m, k)][2] ELSE Undefined

\* Mutant of MapSet: a set that never replaces the entry of a key.
MapSetAppend(m, k, v) == Append(m, <<k, v>>)

MapSet(m, k, v) ==
    IF MapHas(m, k)
    THEN [m EXCEPT ![MapIndex(m, k)] = <<k, v>>]
    ELSE Append(m, <<k, v>>)

MapValues(m) == [i \in 1..Len(m) |-> m[i][2]]

\* { ...a, ...b }
Spread(a, b) == [f \in (DOMAIN a) \cup (DOMAIN b) |-> IF f \in DOMAIN b THEN b[f] ELSE a[f]]

\* ------------------------------------------------------------------
\* String constants of the source
\* ------------------------------------------------------------------
sModel == <<"M", "o", "d", "e", "l">>

sAuthenticatable == <<"A", "u", "t", "h", "e", "n", "t", "i", "c", "a", "t", "a", "b", "l", "e">>

sEloquentModel ==
    <<"I", "l", "l", "u", "m", "i", "n", "a", "t", "e", "\\", "D", "a", "t", "a", "b", "a", "s", "e",
      "\\", "E", "l", "o", "q", "u", "e", "n", "t", "\\", "M", "o", "d", "e", "l">>

sAuthUser ==
    <<"I", "l", "l", "u", "m", "i", "n", "a", "t", "e", "\\", "F", "o", "u", "n", "d", "a", "t", "i",
      "o", "n", "\\", "A", "u", "t", "h", "\\", "U", "s", "e", "r">>

sLowerModel == <<"m", "o", "d", "e", "l">>

sClassLiteral == <<":", ":", "c", "l", "a", "s", "s">>

sHasOne == <<"h", "a", "s", "O", "n", "e">>
sHasMany == <<"h", "a", "s", "M", "a", "n", "y">>
sBelongsTo == <<"b", "e", "l", "o", "n", "g", "s", "T", "o">>
sBelongsToMany == <<"b", "e", "l", "o", "n", "g", "s", "T", "o", "M", "a", "n", "y">>
sHasOneThrough == <<"h", "a", "s", "O", "n", "e", "T", "h", "r", "o", "u", "g", "h">>
sHasManyThrough == <<"h", "a", "s", "M", "a", "n", "y", "T", "h", "r", "o", "u", "g", "h">>
sMorphOne == <<"m", "o", "r", "p", "h", "O", "n", "e">>
sMorphMany == <<"m", "o", "r", "p", "h", "M", "a", "n", "y">>
sMorphTo == <<"m", "o", "r", "p", "h", "T", "o">>
sMorphToMany == <<"m", "o", "r", "p", "h", "T", "o", "M", "a", "n", "y">>
sMorphedByMany == <<"m", "o", "r", "p", "h", "e", "d", "B", "y", "M", "a", "n", "y">>

sOneToOne == <<"O", "n", "e", " ", "T", "o", " ", "O", "n", "e">>
sOneToMany == <<"O", "n", "e", " ", "T", "o", " ", "M", "a", "n", "y">>
sManyToMany == <<"M", "a", "n", "y", " ", "T", "o", " ", "M", "a", "n", "y">>

\* ------------------------------------------------------------------
\* ModelGraphService: the per-file extraction
\*
\* The text of a PHP file is given by what the regular expressions of the
\* service match in it:
\*   namespace  match[1] of /namespace\s+([^;]+);/, trimmed, or Undefined
\*   uses       one [fqcn, alias] per match of /use\s+([^;]+);/g, alias
\*              Undefined when the statement has no `as` clause
\*   class      at most one [name, parent]: match[2] and match[3] of the
\*              class regex
\*   methods    one entry per match of the method regex in the class body:
\*              method, the helper name matched after `return $this->`
\*              (Undefined when the body has no such return) and call, the
\*              text that follows the helper's opening parenthesis up to
\*              the first semicolon
\* ------------------------------------------------------------------
extractUseStatements(content) ==
    LET RECURSIVE Fill(_, _)
        Fill(useMap, i) ==
            IF i > Len(content.uses) THEN useMap
            ELSE LET u == content.uses[i]
                     alias == IF Truthy(u.alias) THEN trim(u.alias)
                              ELSE getClassBaseName(trim(u.fqcn))
                 IN  Fill(MapSet(useMap, alias, trim(u.fqcn)), i + 1)
    IN  Fill(<<>>, 1)

extractNamespace(content) == content.namespace

allowedParents == {sEloquentModel, sAuthUser, sModel, sAuthenticatable}

isModelParent(parentRaw, useMap) ==
    LET normalized == normalizeClassName(parentRaw)
        baseName == getClassBaseName(normalized)
        resolvedFromUse == Or(MapGet(useMap, normalized), MapGet(useMap, baseName))
        resolved == normalizeClassName(Or(resolvedFromUse, normalized))
    IN  IF resolved \in allowedParents \/ baseName \in allowedParents
           \/ normalized \in allowedParents
        THEN TRUE
        ELSE IF endsWith(toLowerCase(baseName), sLowerModel)
        THEN TRUE
        ELSE IF Truthy(resolvedFromUse)
        THEN resolvedFromUse \in allowedParents
             \/ getClassBaseName(resolvedFromUse) \in allowedParents
        ELSE FALSE

\* path.relative(root, filePath) for a filePath below root; a path is the
\* sequence of its segments.
PathRelative(root, filePath) == SubSeq(filePath, Len(root) + 1, Len(filePath))

\* path.basename(file)
PathBasename(file) == file[Len(file)]

\* The model of a file: a sequence holding the ModelNode, or the empty
\* sequence for `undefined`.
extractModel(root, filePath, content, useMap) ==
    IF content.class = <<>> THEN <<>>
    ELSE LET className == content.class[1].name
             parentRaw == content.class[1].parent
             namespace == extractNamespace(content)
         IN  IF ~isModelParent(parentRaw, useMap) THEN <<>>
             ELSE <<[id |-> normalizeClassName(
                              IF Truthy(namespace)
                              THEN namespace \o <<Sep>> \o className
                              ELSE className),
                     name |-> className,
                     namespace |-> namespace,
                     filePath |-> filePath,
                     relativePath |-> PathRelative(root, filePath)]>>

\* Mutant of mapRelationInfo: belongsTo and morphTo stand in the case of hasOne.
mapRelationInfoInverseAsOne(relation) ==
    IF relation \in {sHasOne, sMorphOne, sHasOneThrough, sBelongsTo, sMorphTo}
    THEN [label |-> sOneToOne, sourceCardinality |-> "one", targetCardinality |-> "one"]
    ELSE IF relation \in {sHasMany, sMorphMany, sHasManyThrough}
    THEN [label |-> sOneToMany, sourceCardinality |-> "one", targetCardinality |-> "many"]
    ELSE IF relation \in {sBelongsToMany, sMorphToMany, sMorphedByMany}
    THEN [label |-> sManyToMany, sourceCardinality |-> "many", targetCardinality |-> "many"]
    ELSE [label |-> relation, sourceCardinality |-> "one", targetCardinality |-> "one"]

mapRelationInfo(relation) ==
    IF relation \in {sHasOne, sMorphOne, sHasOneThrough}
    THEN [label |-> sOneToOne, sourceCardinality |-> "one", targetCardinality |-> "one"]
    ELSE IF relation \in {sBelongsTo, sMorphTo}
    THEN [label |-> sOneToOne, sourceCardinality |-> "many", targetCardinality |-> "one"]
    ELSE IF relation \in {sHasMany, sMorphMany, sHasManyThrough}
    THEN [label |-> sOneToMany, sourceCardinality |-> "one", targetCardinality |-> "many"]
    ELSE IF relation \in {sBelongsToMany, sMorphToMany, sMorphedByMany}
    THEN [label |-> sManyToMany, sourceCardinality |-> "many", targetCardinality |-> "many"]
    ELSE [label |-> relation, sourceCardinality |-> "one", targetCardinality |-> "one"]

\* Mutant of resolveTargetModel: the namespace is prefixed to a reference that
\* holds a separator.
resolveTargetModelNamespaceFirst(args, useMap, namespace) ==
    IF ~Truthy(args) THEN Undefined
    ELSE LET firstArg == trim(Split(args, ",")[1])
         IN  IF ~Truthy(firstArg) THEN Undefined
             ELSE IF includes(firstArg, sClassLiteral)
             THEN LET classToken == normalizeClassName(trim(BeforeFirst(firstArg, sClassLiteral)))
                      alias == getClassBaseName(classToken)
                      resolved == Or(MapGet(useMap, classToken), MapGet(useMap, alias))
                  IN  IF Truthy(resolved) THEN normalizeClassName(resolved)
                      ELSE IF Truthy(namespace)
                      THEN normalizeClassName(namespace \o <<Sep>> \o classToken)
                      ELSE normalizeClassName(classToken)
             ELSE IF IsQuote(Head(firstArg))
             THEN LET cleaned == normalizeClassName(StripQuotes(firstArg))
                  IN  IF Truthy(cleaned) THEN normalizeClassName(cleaned) ELSE Undefined
             ELSE LET token == normalizeClassName(firstArg)
                      resolved == Or(MapGet(useMap, token),
                                     MapGet(useMap, getClassBaseName(token)))
                  IN  IF Truthy(resolved) THEN normalizeClassName(resolved)
                      ELSE IF Truthy(namespace)
                      THEN normalizeClassName(namespace \o <<Sep>> \o token)
                      ELSE normalizeClassName(token)

resolveTargetModel(args, useMap, namespace) ==
    IF ~Truthy(args) THEN Undefined
    ELSE LET firstArg == trim(Split(args, ",")[1])
         IN  IF ~Truthy(firstArg) THEN Undefined
             ELSE IF includes(firstArg, sClassLiteral)
             THEN LET classToken == normalizeClassName(trim(BeforeFirst(firstArg, sClassLiteral)))
                      alias == getClassBaseName(classToken)
                      resolved == Or(MapGet(useMap, classToken), MapGet(useMap, alias))
                  IN  IF Truthy(resolved) THEN normalizeClassName(resolved)
                      ELSE IF includes(classToken, <<Sep>>) THEN normalizeClassName(classToken)
                      ELSE IF Truthy(namespace)
                      THEN normalizeClassName(namespace \o <<Sep>> \o classToken)
                      ELSE normalizeClassName(classToken)
             ELSE IF IsQuote(Head(firstArg))
             THEN LET cleaned == normalizeClassName(StripQuotes(firstArg))
                  IN  IF Truthy(cleaned) THEN normalizeClassName(cleaned) ELSE Undefined
             ELSE LET token == normalizeClassName(firstArg)
                      resolved == Or(MapGet(useMap, token),
                                     MapGet(useMap, getClassBaseName(token)))
                  IN  IF Truthy(resolved) THEN normalizeClassName(resolved)
                      ELSE IF Truthy(namespace)
                      THEN normalizeClassName(namespace \o <<Sep>> \o token)
                      ELSE normalizeClassName(token)

\* relationMatch[2]: the capture of \(([^;]+?)\) on the text after the
\* opening parenthesis: the shortest non-empty prefix that a ")" follows.
RelationArgs(call) ==
    LET ends == {k \in 1..(Len(call) - 1) : call[k + 1] = ")"}
    IN  IF ends = {} THEN Undefined
        ELSE SubSeq(call, 1, CHOOSE k \in ends : \A j \in ends : k <= j)

\* The relationships one method contributes: none or one.
MethodRelationship(model, m, useMap) ==
    IF m.relation = Undefined \/ RelationArgs(m.call) = Undefined THEN <<>>
    ELSE LET target == resolveTargetModel(RelationArgs(m.call), useMap, model.namespace)
             info == mapRelationInfo(m.relation)
         IN  IF ~Truthy(target) THEN <<>>
             ELSE <<[source |-> model.id,
                     target |-> target,
                     type |-> info.label,
                     relation |-> m.relation,
                     method |-> m.method,
                     filePath |-> model.filePath,
                     sourceCardinality |-> info.sourceCardinality,
                     targetCardinality |-> info.targetCardinality]>>

extractRelationships(model, content, useMap) ==
    LET RECURSIVE Collect(_)
        Collect(i) ==
            IF i > Len(content.methods) THEN <<>>
            ELSE MethodRelationship(model, content.methods[i], useMap) \o Collect(i + 1)
    IN  Collect(1)

\* ------------------------------------------------------------------
\* The scanned workspace: the inputs of a scan
\* ------------------------------------------------------------------
sApp == <<"A", "p", "p">>
sPost == <<"P", "o", "s", "t">>
sComment == <<"C", "o", "m", "m", "e", "n", "t">>
sUser == <<"U", "s", "e", "r">>
sBaseModel == <<"B", "a", "s", "e", "M", "o", "d", "e", "l">>
sController == <<"C", "o", "n", "t", "r", "o", "l", "l", "e", "r">>
sPostController == <<"P", "o", "s", "t", "C", "o", "n", "t", "r", "o", "l", "l", "e", "r">>

nPostPhp == <<"P", "o", "s", "t", ".", "p", "h", "p">>
nCommentPhp == <<"C", "o", "m", "m", "e", "n", "t", ".", "p", "h", "p">>
nUserPhp == <<"U", "s", "e", "r", ".", "p", "h", "p">>
nControllerPhp ==
    <<"P", "o", "s", "t", "C", "o", "n", "t", "r", "o", "l", "l", "e", "r", ".", "p", "h", "p">>
nLegacyPostPhp == <<"L", "e", "g", "a", "c", "y", "P", "o", "s", "t", ".", "p", "h", "p">>
nReadme == <<"R", "E", "A", "D", "M", "E", ".", "m", "d">>
nGit == <<".", "g", "i", "t">>
nVendor == <<"v", "e", "n", "d", "o", "r">>
nNodeModules == <<"n", "o", "d", "e", "_", "m", "o", "d", "u", "l", "e", "s">>
nStorage == <<"s", "t", "o", "r", "a", "g", "e">>
nBootstrap == <<"b", "o", "o", "t", "s", "t", "r", "a", "p">>
nPublic == <<"p", "u", "b", "l", "i", "c">>
nDist == <<"d", "i", "s", "t">>
nApp == <<"a", "p", "p">>
nWorkspace == <<"w", "o", "r", "k", "s", "p", "a", "c", "e">>
sDotPhp == <<".", "p", "h", "p">>

\* Comment::class)
callCommentClass ==
    <<"C", "o", "m", "m", "e", "n", "t", ":", ":", "c", "l", "a", "s", "s", ")">>
\* Post::class)
callPostClass == <<"P", "o", "s", "t", ":", ":", "c", "l", "a", "s", "s", ")">>
\* User::class)
callUserClass == <<"U", "s", "e", "r", ":", ":", "c", "l", "a", "s", "s", ")">>
\* $this->buildDynamicClass())
callDynamic ==
    <<"$", "t", "h", "i", "s", "-", ">", "b", "u", "i", "l", "d", "D", "y", "n", "a", "m", "i", "c",
      "C", "l", "a", "s", "s", "(", ")", ")">>
\* \Ext\Profile::class, 'user_id')
callProfileClass ==
    <<"\\", "E", "x", "t", "\\", "P", "r", "o", "f", "i", "l", "e", ":", ":", "c", "l", "a", "s",
      "s", ",", " ", "'", "u", "s", "e", "r", "_", "i", "d", "'", ")">>
\* 'App\\')
callQuotedTrailing == <<"'", "A", "p", "p", "\\", "\\", "'", ")">>

\* 'Tag', 'taggable')
callQuotedTag ==
    <<"'", "T", "a", "g", "'", ",", " ", "'", "t", "a", "g", "g", "a", "b", "l", "e", "'", ")">>

NoUses == <<>>

UseEloquent == <<[fqcn |-> sEloquentModel, alias |-> Undefined]>>

UseAuthUser == <<[fqcn |-> sAuthUser, alias |-> sAuthenticatable]>>

Method(name, relation, call) == [method |-> name, relation |-> relation, call |-> call]

\* The PHP files the scanned trees are built from.
\*  1 App\Post        extends Model (imported); comments() hasMany(Comment::class),
\*                    and a method that returns no relationship
\*  2 App\Comment     extends Model; post() belongsTo(Post::class)
\*  3 App\User        extends Authenticatable (alias of Auth\User);
\*                    profile() hasOne(\Ext\Profile::class, 'user_id'),
\*                    drafts() hasMany('App\\'),
\*                    tags() belongsToMany($this->buildDynamicClass())
\*  4 PostController  extends Controller: no model
\*  5 App\Post again  (another file declaring the same class) extends BaseModel;
\*                    author() belongsTo(User::class),
\*                    tags() morphToMany('Tag', 'taggable')
FilePool ==
    <<[name |-> nPostPhp,
       content |-> [namespace |-> sApp, uses |-> UseEloquent,
                    class |-> <<[name |-> sPost, parent |-> sModel]>>,
                    methods |-> <<Method("comments", sHasMany, callCommentClass),
                                  Method("scopeRecent", Undefined, <<>>)>>]],
      [name |-> nCommentPhp,
       content |-> [namespace |-> sApp, uses |-> UseEloquent,
                    class |-> <<[name |-> sComment, parent |-> sModel]>>,
                    methods |-> <<Method("post", sBelongsTo, callPostClass)>>]],
      [name |-> nUserPhp,
       content |-> [namespace |-> sApp, uses |-> UseAuthUser,
                    class |-> <<[name |-> sUser, parent |-> sAuthenticatable]>>,
                    methods |-> <<Method("profile", sHasOne, callProfileClass),
                                  Method("drafts", sHasMany, callQuotedTrailing),
                                  Method("tags", sBelongsToMany, callDynamic)>>]],
      [name |-> nControllerPhp,
       content |-> [namespace |-> sApp, uses |-> NoUses,
                    class |-> <<[name |-> sPostController, parent |-> sController]>>,
                    methods |-> <<Method("index", sHasMany, callPostClass)>>]],
      [name |-> nLegacyPostPhp,
       content |-> [namespace |-> sApp, uses |-> NoUses,
                    class |-> <<[name |-> sPost, parent |-> sBaseModel]>>,
                    methods |-> <<Method("author", sBelongsTo, callUserClass),
                                  Method("tags", sMorphToMany, callQuotedTag)>>]]>>

PoolIds == 1..Len(FilePool)

\* A directory entry (fs.Dirent) with what lies behind it: for a directory
\* whether readdir succeeds and its entries, for a file whether readFile
\* succeeds and the pool file whose text it holds (0: a file that is no pool
\* file and holds its own text, if any).
FileEntry(i, failing) ==
    [name |-> FilePool[i].name, kind |-> "file", readable |-> i \notin failing,
     entries |-> <<>>, file |-> i]

DirEntry(name, readable, entries) ==
    [name |-> name, kind |-> "dir", readable |-> readable, entries |-> entries, file |-> 0]

OtherFile(name) ==
    [name |-> name, kind |-> "file", readable |-> TRUE, entries |-> <<>>, file |-> 0]

\* Sequences without repetition of at most MaxFiles pool files.
Orders ==
    {o \in UNION {[1..n -> PoolIds] : n \in 0..MaxFiles} :
        \A i, j \in DOMAIN o : i # j => o[i] # o[j]}

Range(f) == {f[i] : i \in DOMAIN f}

\* A workspace root directory: a dot directory, a skipped directory that holds
\* a PHP file, a file that is no PHP file, the first inRoot files of the order
\* and, when subdir is not "absent", the directory app with the other files.
Tree(order, failing, inRoot, subdir, rootReadable) ==
    LET files == [i \in 1..Len(order) |-> FileEntry(order[i], failing)]
        fixed == <<DirEntry(nGit, TRUE, <<>>),
                   DirEntry(nVendor, FALSE, <<FileEntry(1, {})>>),
                   OtherFile(nReadme)>>
        app == IF subdir = "absent" THEN <<>>
               ELSE <<DirEntry(nApp, subdir = "readable",
                               SubSeq(files, inRoot + 1, Len(files)))>>
    IN  DirEntry(nWorkspace, rootReadable, fixed \o SubSeq(files, 1, inRoot) \o app)

\* ------------------------------------------------------------------
\* WorkspaceService and the file system calls
\* ------------------------------------------------------------------
NoWorkspaceMessage == "No workspace open. Please open a Laravel project folder."

ReaddirMessage == "EACCES: permission denied, scandir"

ReadFileMessage == "EACCES: permission denied, open"

\* The outcome of a call: a value, or an exception with its message.
Value(v) == [threw |-> FALSE, value |-> v, message |-> ""]

Throw(message) == [threw |-> TRUE, value |-> <<>>, message |-> message]

\* vscode.workspace.workspaceFolders is modelled by `folders`, the sequence of
\* the fsPath of each folder.
getWorkspaceRoot(folders) ==
    IF Len(folders) = 0 THEN Throw(NoWorkspaceMessage) ELSE Value(folders[1])

skipDirs == {nVendor, nNodeModules, nStorage, nBootstrap, nPublic, nGit, nDist}

\* The directory entry at path below the root directory `dir` whose own path
\* is rootPath.
RECURSIVE EntryAt(_, _, _)
EntryAt(dir, rootPath, path) ==
    IF Len(path) = Len(rootPath) THEN dir
    ELSE LET name == path[Len(rootPath) + 1]
             i == CHOOSE j \in 1..Len(dir.entries) : dir.entries[j].name = name
         IN  EntryAt(dir.entries[i], Append(rootPath, name), path)

\* walk(dir) of collectPhpFiles: fullPath of dir, its node on the disk and
\* the phpFiles pushed so far; the value is phpFiles after the walk.
RECURSIVE walk(_, _, _)
walk(dirPath, dir, phpFiles) ==
    IF ~dir.readable THEN Throw(ReaddirMessage)
    ELSE LET RECURSIVE Each(_, _)
             Each(i, files) ==
                 IF i > Len(dir.entries) THEN Value(files)
                 ELSE LET entry == dir.entries[i]
                          fullPath == Append(dirPath, entry.name)
                      IN  IF startsWith(entry.name, <<".">>) THEN Each(i + 1, files)
                          ELSE IF entry.kind = "dir"
                          THEN IF entry.name \in skipDirs THEN Each(i + 1, files)
                               ELSE LET sub == walk(fullPath, entry, files)
                                    IN  IF sub.threw THEN sub ELSE Each(i + 1, sub.value)
                          ELSE IF entry.kind = "file" /\ endsWith(entry.name, sDotPhp)
                          THEN Each(i + 1, Append(files, fullPath))
                          ELSE Each(i + 1, files)
         IN  Each(1, phpFiles)

collectPhpFiles(root, dir) == walk(root, dir, <<>>)

\* fs.promises.readFile(file, 'utf8')
readFile(dir, root, file) ==
    LET entry == EntryAt(dir, root, file)
    IN  IF ~entry.readable THEN Throw(ReadFileMessage)
        ELSE IF entry.file = 0 THEN Value(entry.text)
        ELSE Value(FilePool[entry.file].content)

\* ------------------------------------------------------------------
\* ModelGraphService.getModelGraph: the graph assembler
\* ------------------------------------------------------------------
NoError == "undefined"

\* The accumulators of one scan: the nodes Map, the relationships and the
\* warnings.
EmptyScan == [nodes |-> <<>>, relationships |-> <<>>, warnings |-> <<>>]

\* `Could not parse ${path.basename(file)}: ${message}`
Warning(file, message) == <<"Could not parse ", PathBasename(file), ": ", message>>

\* Mutant of ModelEntry: an id that has a node keeps it (if (!nodes.has(id)) set).
ModelEntryKeepExisting(nodes, model) ==
    IF MapHas(nodes, model.id) THEN MapGet(nodes, model.id)
    ELSE Spread(model, [isExternal |-> FALSE])

\* Mutant of ModelEntry: the fields of the node the id has win over the fields
\* of the model ({ ...model, ...(existing || {}), isExternal: false }).
ModelEntryExistingWins(nodes, model) ==
    LET existing == IF MapHas(nodes, model.id) THEN MapGet(nodes, model.id) ELSE <<>>
    IN  Spread(Spread(model, existing), [isExternal |-> FALSE])

\* The node stored for a model: { ...(existing || {}), ...model, isExternal: false }
ModelEntry(nodes, model) ==
    LET existing == IF MapHas(nodes, model.id) THEN MapGet(nodes, model.id) ELSE <<>>
    IN  Spread(Spread(existing, model), [isExternal |-> FALSE])

PlaceholderNode(target) ==
    [id |-> target,
     name |-> getClassBaseName(target),
     namespace |-> getNamespace(target),
     filePath |-> <<>>,
     relativePath |-> <<>>,
     isExternal |-> TRUE]

\* Mutant of AddRelationship: the placeholder is stored without asking
\* nodes.has(rel.target).
AddRelationshipOverwrite(scan, rel) ==
    [scan EXCEPT
        !.relationships = Append(@, rel),
        !.nodes = MapSet(@, rel.target, PlaceholderNode(rel.target))]

\* Mutant of AddRelationship: no placeholder is stored.
AddRelationshipOnly(scan, rel) == [scan EXCEPT !.relationships = Append(@, rel)]

\* One pass of the loop over modelRelationships.
AddRelationship(scan, rel) ==
    [scan EXCEPT
        !.relationships = Append(@, rel),
        !.nodes = IF ~MapHas(@, rel.target)
                  THEN MapSet(@, rel.target, PlaceholderNode(rel.target))
                  ELSE @]

RECURSIVE AddRelationships(_, _)
AddRelationships(scan, rels) ==
    IF rels = <<>> THEN scan
    ELSE AddRelationships(AddRelationship(scan, Head(rels)), Tail(rels))

\* The body of the inner try for a file whose text was read.
ProcessContent(scan, root, file, content) ==
    LET useMap == extractUseStatements(content)
        found == extractModel(root, file, content, useMap)
    IN  IF found = <<>> THEN scan
        ELSE LET model == found[1]
                 withNode == [scan EXCEPT
                                 !.nodes = MapSet(@, model.id, ModelEntry(@, model))]
             IN  AddRelationships(withNode, extractRelationships(model, content, useMap))

\* Mutant of CatchFile: the failure is swallowed without a warning.
CatchFileSilent(scan, file, message) == scan

\* The inner catch.
CatchFile(scan, file, message) ==
    [scan EXCEPT !.warnings = Append(@, Warning(file, message))]

\* One pass of the loop over phpFiles.
ProcessFile(scan, dir, root, file) ==
    LET read == readFile(dir, root, file)
    IN  IF read.threw THEN CatchFile(scan, file, read.message)
        ELSE ProcessContent(scan, root, file, read.value)

\* What a call of getModelGraph ends with: the promise is fulfilled with a
\* ModelGraphResult, or rejected.
Fulfilled(result) == [kind |-> "fulfilled", result |-> result]

Rejected(message) ==
    [kind |-> "rejected",
     result |-> [nodes |-> <<>>, relationships |-> <<>>, warnings |-> <<>>, error |-> message]]

\* The return at the end of the outer try.
ReturnGraph(scan) ==
    Fulfilled([nodes |-> MapValues(scan.nodes),
               relationships |-> scan.relationships,
               warnings |-> scan.warnings,
               error |-> NoError])

\* Mutant of CatchScan: the message is not put into the error field.
CatchScanNoError(warnings, message) ==
    Fulfilled([nodes |-> <<>>, relationships |-> <<>>, warnings |-> warnings, error |-> NoError])

\* Mutant of CatchScan: the exception is thrown again.
CatchScanRethrow(warnings, message) == Rejected(message)

\* The outer catch.
CatchScan(warnings, message) ==
    Fulfilled([nodes |-> <<>>, relationships |-> <<>>, warnings |-> warnings, error |-> message])

\* ------------------------------------------------------------------
\* The model-graph webview script: search and edge merging
\* ------------------------------------------------------------------
NoCardinality == "undefined"

\* Mutant of pickCardinality: the cardinality of the latest relationship wins.
pickCardinalityLatest(existing, incoming) ==
    IF incoming # NoCardinality THEN incoming
    ELSE IF existing # NoCardinality THEN existing
    ELSE "one"

\* Mutant of pickCardinality: the cardinality the edge has is kept.
pickCardinalityFirst(existing, incoming) ==
    IF existing # NoCardinality THEN existing
    ELSE IF incoming # NoCardinality THEN incoming
    ELSE "one"

pickCardinality(existing, incoming) ==
    IF existing = "many" \/ incoming = "many" THEN "many"
    ELSE IF existing # NoCardinality THEN existing
    ELSE IF incoming # NoCardinality THEN incoming
    ELSE "one"

relationLabelFromCardinality(sourceCardinality, targetCardinality) ==
    LET src == IF sourceCardinality # NoCardinality THEN sourceCardinality ELSE "one"
        tgt == IF targetCardinality # NoCardinality THEN targetCardinality ELSE "one"
    IN  IF src = "many" /\ tgt = "many" THEN sManyToMany
        ELSE IF src = "many" \/ tgt = "many" THEN sOneToMany
        ELSE sOneToOne

\* [rel.source, rel.target].sort()
SortedPair(rel) ==
    IF StrLess(rel.target, rel.source) THEN <<rel.target, rel.source>>
    ELSE <<rel.source, rel.target>>

\* Mutant of SideCardinalities: the cardinalities of a relationship declared
\* from sorted[1] to sorted[0] are not swapped.
SideCardinalitiesUnswapped(rel) ==
    [srcCard |-> rel.sourceCardinality, tgtCard |-> rel.targetCardinality]

\* The cardinalities of a relationship on the sides of sorted[0] and sorted[1].
SideCardinalities(rel) ==
    LET needSwap == rel.source # SortedPair(rel)[1]
    IN  [srcCard |-> IF needSwap THEN rel.targetCardinality ELSE rel.sourceCardinality,
         tgtCard |-> IF needSwap THEN rel.sourceCardinality ELSE rel.targetCardinality]

\* Mutant of MergeEdge: the label of the edge is the type of the first
\* relationship of the pair.
MergeEdgeTypeLabel(edgeMap, rel, visible) ==
    IF visible # {} /\ (rel.source \notin visible \/ rel.target \notin visible)
    THEN edgeMap
    ELSE LET sorted == SortedPair(rel)
             undirectedKey == sorted[1] \o <<"|">> \o sorted[2]
             cards == SideCardinalities(rel)
             has == MapHas(edgeMap, undirectedKey)
             existing == MapGet(edgeMap, undirectedKey)
             mergedSrc == pickCardinality(
                              IF has THEN existing.sourceCardinality ELSE NoCardinality,
                              cards.srcCard)
             mergedTgt == pickCardinality(
                              IF has THEN existing.targetCardinality ELSE NoCardinality,
                              cards.tgtCard)
         IN  MapSet(edgeMap, undirectedKey,
                    [fromId |-> sorted[1],
                     toId |-> sorted[2],
                     label |-> IF has THEN existing.label ELSE rel.type,
                     method |-> IF has /\ existing.method # "" THEN existing.method
                                ELSE rel.method,
                     relation |-> IF has /\ Truthy(existing.relation) THEN existing.relation
                                  ELSE rel.relation,
                     sourceCardinality |-> mergedSrc,
                     targetCardinality |-> mergedTgt])

\* One pass of the forEach over graphData.relationships in drawEdges.
MergeEdge(edgeMap, rel, visible) ==
    IF visible # {} /\ (rel.source \notin visible \/ rel.target \notin visible)
    THEN edgeMap
    ELSE LET sorted == SortedPair(rel)
             undirectedKey == sorted[1] \o <<"|">> \o sorted[2]
             cards == SideCardinalities(rel)
             has == MapHas(edgeMap, undirectedKey)
             existing == MapGet(edgeMap, undirectedKey)
             mergedSrc == pickCardinality(
                              IF has THEN existing.sourceCardinality ELSE NoCardinality,
                              cards.srcCard)
             mergedTgt == pickCardinality(
                              IF has THEN existing.targetCardinality ELSE NoCardinality,
                              cards.tgtCard)
         IN  MapSet(edgeMap, undirectedKey,
                    [fromId |-> sorted[1],
                     toId |-> sorted[2],
                     label |-> relationLabelFromCardinality(mergedSrc, mergedTgt),
                     method |-> IF has /\ existing.method # "" THEN existing.method
                                ELSE rel.method,
                     relation |-> IF has /\ Truthy(existing.relation) THEN existing.relation
                                  ELSE rel.relation,
                     sourceCardinality |-> mergedSrc,
                     targetCardinality |-> mergedTgt])

\* drawEdges: the edges drawn for a graph, the visible set and the ids that
\* have a node element (the keys of nodeState).
drawEdges(graph, visible, stateIds) ==
    LET RECURSIVE Merge(_, _)
        Merge(edgeMap, i) ==
            IF i > Len(graph.relationships) THEN edgeMap
            ELSE Merge(MergeEdge(edgeMap, graph.relationships[i], visible), i + 1)
        all == MapValues(Merge(<<>>, 1))
    IN  SelectSeq(all, LAMBDA edge : edge.fromId \in stateIds /\ edge.toId \in stateIds)

NodeIds(graph) == {graph.nodes[i].id : i \in 1..Len(graph.nodes)}

\* Mutant of applySearch: only the matched nodes are visible.
applySearchMatchedOnly(graph, term) ==
    LET found == [n \in 1..Len(graph.nodes) |->
                     \/ includes(toLowerCase(graph.nodes[n].name), toLowerCase(term))
                     \/ includes(toLowerCase(Or(graph.nodes[n].namespace, <<>>)), toLowerCase(term))
                     \/ \E i \in 1..Len(graph.relationships) :
                           /\ graph.nodes[n].id \in {graph.relationships[i].source,
                                                     graph.relationships[i].target}
                           /\ includes(toLowerCase(graph.relationships[i].type), toLowerCase(term))]
        matched == {graph.nodes[n].id : n \in {k \in 1..Len(graph.nodes) : found[k]}}
    IN  IF term = <<>>
        THEN [visibleNodes |-> {graph.nodes[n].id : n \in 1..Len(graph.nodes)}, matchedNodes |-> {}]
        ELSE [visibleNodes |-> matched, matchedNodes |-> matched]

\* The sets visibleNodes and matchedNodes that applySearch(term) computes.
applySearch(graph, term) ==
    LET query == toLowerCase(term)
        Touches(rel, node) == rel.source = node.id \/ rel.target = node.id
        Matches(node) ==
            \/ includes(toLowerCase(node.name), query)
            \/ includes(toLowerCase(Or(node.namespace, <<>>)), query)
            \/ \E i \in 1..Len(graph.relationships) :
                  /\ Touches(graph.relationships[i], node)
                  /\ includes(toLowerCase(graph.relationships[i].type), query)
        matched == {graph.nodes[i].id : i \in {j \in 1..Len(graph.nodes) : Matches(graph.nodes[j])}}
        neighbors ==
            {graph.relationships[i].target :
                i \in {j \in 1..Len(graph.relationships) : graph.relationships[j].source \in matched}}
            \cup
            {graph.relationships[i].source :
                i \in {j \in 1..Len(graph.relationships) : graph.relationships[j].target \in matched}}
    IN  IF query = <<>>
        THEN [visibleNodes |-> NodeIds(graph), matchedNodes |-> {}]
        ELSE [visibleNodes |-> matched \cup neighbors, matchedNodes |-> matched]

\* The alerts renderGraph puts into the error container.
GraphAlerts(graph) ==
    (IF graph.error # NoError THEN <<[class |-> "alert-error", text |-> graph.error]>> ELSE <<>>)
    \o [i \in 1..Len(graph.warnings) |-> [class |-> "alert-warning", text |-> graph.warnings[i]]]

EmptyGraph == [nodes |-> <<>>, relationships |-> <<>>, warnings |-> <<>>, error |-> NoError]

qPost == <<"P", "o", "s", "t">>

qNone == <<"z", "z", "z">>

qMany == <<"M", "A", "N", "Y">>

\* The texts typed into the search input: none, part of a name, a text that
\* occurs nowhere, part of a relationship type.
Queries == {<<>>, qPost, qNone, qMany}

\* ------------------------------------------------------------------
\* The model-graph webview script: layout, positions, zoom
\* ------------------------------------------------------------------
\* Lengths are whole pixels and the zoom scale is counted in hundredths; where
\* the script divides, the quotient is rounded down to a whole pixel.
\* const MIN_SCALE = 0.5
MIN_SCALE == 50

\* const MAX_SCALE = 2.5
MAX_SCALE == 250

OVERLAP_SPACING == 28

LARGE_GRAPH_THRESHOLD == 150

NODE_SPACING == 220

GRID_MARGIN == 120

\* let scale = 1
DefaultScale == 100

\* let pan = { x: 0, y: 0 }
NoPan == [x |-> 0, y |-> 0]

\* element.offsetWidth and element.offsetHeight of a node element: the box
\* layoutNodes centres when it takes 100 and 50 off the ring position.
NodeSize == [width |-> 200, height |-> 100]

Max(a, b) == IF a >= b THEN a ELSE b

Min(a, b) == IF a <= b THEN a ELSE b

\* Mutant of clamp: the value is returned as it is.
clampNothing(value, min, max) == value

clamp(value, min, max) == Min(Max(value, min), max)

\* canvas.getBoundingClientRect().width / scale, and the same for the height.
ViewWidth(rect, scale) == (rect.width * 100) \div scale

ViewHeight(rect, scale) == (rect.height * 100) \div scale

\* The webview state the layout works on: nodeState, savedPositions,
\* layoutWidth and layoutHeight.
NoLayout == [nodeState |-> <<>>, savedPositions |-> <<>>, layoutWidth |-> 0, layoutHeight |-> 0]

\* Mutant of setNodePosition: the position is written on the node of the
\* graph as well.
setNodePositionOnData(v, rect, scale, id, x, y, skipPersist) ==
    IF ~MapHas(v.nodeState, id) THEN v
    ELSE LET maxX == Max(0, (IF v.layoutWidth # 0 THEN v.layoutWidth
                             ELSE ViewWidth(rect, scale)) - NodeSize.width)
             maxY == Max(0, (IF v.layoutHeight # 0 THEN v.layoutHeight
                             ELSE ViewHeight(rect, scale)) - NodeSize.height)
             at == [x |-> clamp(x, 0, maxX), y |-> clamp(y, 0, maxY)]
             state == MapGet(v.nodeState, id)
         IN  [v EXCEPT
                !.nodeState = MapSet(@, id, [data |-> Spread(state.data, at),
                                             x |-> at.x, y |-> at.y]),
                !.savedPositions = IF skipPersist THEN @ ELSE MapSet(@, id, at)]

setNodePosition(v, rect, scale, id, x, y, skipPersist) ==
    IF ~MapHas(v.nodeState, id) THEN v
    ELSE LET extentWidth == IF v.layoutWidth # 0 THEN v.layoutWidth ELSE ViewWidth(rect, scale)
             extentHeight == IF v.layoutHeight # 0 THEN v.layoutHeight ELSE ViewHeight(rect, scale)
             maxX == Max(0, extentWidth - NodeSize.width)
             maxY == Max(0, extentHeight - NodeSize.height)
             clampedX == clamp(x, 0, maxX)
             clampedY == clamp(y, 0, maxY)
         IN  [v EXCEPT
                !.nodeState = MapSet(@, id, [MapGet(v.nodeState, id) EXCEPT
                                                !.x = clampedX, !.y = clampedY]),
                !.savedPositions = IF skipPersist THEN @
                                   ELSE MapSet(@, id, [x |-> clampedX, y |-> clampedY])]

\* buildDegreeMap().get(id) || 0
Degree(graph, id) ==
    Cardinality({i \in 1..Len(graph.relationships) : graph.relationships[i].source = id})
    + Cardinality({i \in 1..Len(graph.relationships) : graph.relationships[i].target = id})

\* [...connected].sort((a, b) => degree(b) - degree(a)): a stable sort.
RECURSIVE SortByDegree(_, _)
SortByDegree(graph, nodes) ==
    IF nodes = <<>> THEN <<>>
    ELSE LET rest == SortByDegree(graph, SubSeq(nodes, 1, Len(nodes) - 1))
             last == nodes[Len(nodes)]
             before == SelectSeq(rest, LAMBDA n : Degree(graph, n.id) >= Degree(graph, last.id))
             after == SelectSeq(rest, LAMBDA n : Degree(graph, n.id) < Degree(graph, last.id))
         IN  before \o <<last>> \o after

\* <<Math.cos(angle), Math.sin(angle)>> in thousandths, rounded, for the
\* angles (index / m) * 2 * PI of a ring: RingUnit[m][index], m up to twelve.
RingUnit ==
    <<
      <<<<1000, 0>>>>,
      <<<<-1000, 0>>, <<1000, 0>>>>,
      <<<<-500, 866>>, <<-500, -866>>, <<1000, 0>>>>,
      <<<<0, 1000>>, <<-1000, 0>>, <<0, -1000>>, <<1000, 0>>>>,
      <<<<309, 951>>, <<-809, 588>>, <<-809, -588>>, <<309, -951>>, <<1000, 0>>>>,
      <<<<500, 866>>, <<-500, 866>>, <<-1000, 0>>, <<-500, -866>>, <<500, -866>>,
        <<1000, 0>>>>,
      <<<<623, 782>>, <<-223, 975>>, <<-901, 434>>, <<-901, -434>>, <<-223, -975>>,
        <<623, -782>>, <<1000, 0>>>>,
      <<<<707, 707>>, <<0, 1000>>, <<-707, 707>>, <<-1000, 0>>, <<-707, -707>>,
        <<0, -1000>>, <<707, -707>>, <<1000, 0>>>>,
      <<<<766, 643>>, <<174, 985>>, <<-500, 866>>, <<-940, 342>>, <<-940, -342>>,
        <<-500, -866>>, <<174, -985>>, <<766, -643>>, <<1000, 0>>>>,
      <<<<809, 588>>, <<309, 951>>, <<-309, 951>>, <<-809, 588>>, <<-1000, 0>>,
        <<-809, -588>>, <<-309, -951>>, <<309, -951>>, <<809, -588>>, <<1000, 0>>>>,
      <<<<841, 541>>, <<415, 910>>, <<-142, 990>>, <<-655, 756>>, <<-959, 282>>,
        <<-959, -282>>, <<-655, -756>>, <<-142, -990>>, <<415, -910>>, <<841, -541>>,
        <<1000, 0>>>>,
      <<<<866, 500>>, <<500, 866>>, <<0, 1000>>, <<-500, 866>>, <<-866, 500>>,
        <<-1000, 0>>, <<-866, -500>>, <<-500, -866>>, <<0, -1000>>, <<500, -866>>,
        <<866, -500>>, <<1000, 0>>>>
    >>

\* Math.max(180, Math.min(viewWidth, viewHeight) / 2.4)
ClusterRadius(viewWidth, viewHeight) == Max(180, (Min(viewWidth, viewHeight) * 10) \div 24)

\* The position layoutNodes computes for the connected node at `index` of
\* `count` sorted nodes.
ConnectedTarget(index, count, viewWidth, viewHeight) ==
    LET center == [x |-> viewWidth \div 2, y |-> viewHeight \div 2]
        clusterRadius == ClusterRadius(viewWidth, viewHeight)
        unit == RingUnit[Max(1, count - 1)][index]
    IN  IF index = 0
        THEN [x |-> center.x - 100, y |-> center.y - 50]
        ELSE [x |-> center.x + (clusterRadius * unit[1]) \div 1000 - 100,
              y |-> center.y + (clusterRadius * unit[2]) \div 1000 - 50]

\* The position layoutNodes computes for the isolated node at `index`.
IsolatedTarget(index, viewWidth, viewHeight) ==
    LET isoCols == Max(1, viewWidth \div 220)
        isoStartX == 20
        isoStartY == viewHeight - 140
        col == index % isoCols
        row == index \div isoCols
    IN  [x |-> isoStartX + col * 220, y |-> isoStartY - row * 130]

\* Math.ceil(Math.sqrt(n))
CeilSqrt(n) == CHOOSE c \in 0..n : c * c >= n /\ \A d \in 0..n : d * d >= n => c <= d

\* The position layoutNodes computes for the node at `index` of a graph of
\* more than LARGE_GRAPH_THRESHOLD nodes.
GridTarget(index, cols) ==
    [x |-> GRID_MARGIN + (index % cols) * NODE_SPACING,
     y |-> GRID_MARGIN + (index \div cols) * NODE_SPACING]

\* One of the forEach loops of layoutNodes: every node of `nodes` goes to its
\* saved position, if it has one and reset is false, or else to its target.
RECURSIVE PlaceNodes(_, _, _, _, _, _, _)
PlaceNodes(v, rect, scale, nodes, targets, reset, i) ==
    IF i > Len(nodes) THEN v
    ELSE LET id == nodes[i].id
             saved == MapGet(v.savedPositions, id)
             to == IF ~reset /\ MapHas(v.savedPositions, id) THEN saved ELSE targets[i]
         IN  PlaceNodes(setNodePosition(v, rect, scale, id, to.x, to.y, TRUE),
                        rect, scale, nodes, targets, reset, i + 1)

\* One pair of the inner loops of resolveCollisions, on the positions of the
\* nodes in the order of nodeState.
PushApart(pos, a, b, rect, scale) ==
    LET overlapX == Min(pos[a].x + NodeSize.width, pos[b].x + NodeSize.width)
                        - Max(pos[a].x, pos[b].x)
        overlapY == Min(pos[a].y + NodeSize.height, pos[b].y + NodeSize.height)
                        - Max(pos[a].y, pos[b].y)
        pushX == (overlapX + OVERLAP_SPACING) \div 2
        pushY == (overlapY + OVERLAP_SPACING) \div 2
        limitX == ViewWidth(rect, scale) - NodeSize.width
        limitY == ViewHeight(rect, scale) - NodeSize.height
    IN  IF overlapX > 0 /\ overlapY > 0
        THEN [moved |-> TRUE,
              pos |-> [pos EXCEPT ![a] = [x |-> clamp(pos[a].x - pushX, 0, limitX),
                                          y |-> clamp(pos[a].y - pushY, 0, limitY)],
                                  ![b] = [x |-> clamp(pos[b].x + pushX, 0, limitX),
                                          y |-> clamp(pos[b].y + pushY, 0, limitY)]]]
        ELSE [moved |-> FALSE, pos |-> pos]

\* One pass of the outer loop of resolveCollisions, from the pair (a, b) on.
RECURSIVE CollisionPass(_, _, _, _, _, _)
CollisionPass(pos, a, b, moved, rect, scale) ==
    IF a > Len(pos) THEN [moved |-> moved, pos |-> pos]
    ELSE IF b > Len(pos) THEN CollisionPass(pos, a + 1, a + 2, moved, rect, scale)
    ELSE LET pushed == PushApart(pos, a, b, rect, scale)
         IN  CollisionPass(pushed.pos, a, b + 1, moved \/ pushed.moved, rect, scale)

\* The passes of resolveCollisions from pass i on. A pass that moved nodes
\* and left every position as it was is followed by passes that do the same.
RECURSIVE CollisionLoop(_, _, _, _, _)
CollisionLoop(pos, i, iterations, rect, scale) ==
    IF i >= iterations THEN pos
    ELSE LET pass == CollisionPass(pos, 1, 2, FALSE, rect, scale)
         IN  IF ~pass.moved \/ pass.pos = pos THEN pass.pos
             ELSE CollisionLoop(pass.pos, i + 1, iterations, rect, scale)

\* Mutant of CollisionPasses: a pass that found no overlap is followed by the
\* next pass.
RECURSIVE CollisionPassesNoBreak(_, _, _, _, _)
CollisionPassesNoBreak(pos, i, iterations, rect, scale) ==
    IF i >= iterations THEN <<>>
    ELSE LET pass == CollisionPass(pos, 1, 2, FALSE, rect, scale)
         IN  IF pass.pos = pos THEN [k \in 1..(iterations - i) |-> pass.moved]
             ELSE <<pass.moved>> \o CollisionPassesNoBreak(pass.pos, i + 1, iterations, rect, scale)

\* The value of `moved` at the end of each pass the outer loop of
\* resolveCollisions runs from pass i on: the loop leaves after a pass that
\* ends with moved = false. A pass that moved nodes and left every position
\* as it was is followed by passes that do the same, up to the last.
RECURSIVE CollisionPasses(_, _, _, _, _)
CollisionPasses(pos, i, iterations, rect, scale) ==
    IF i >= iterations THEN <<>>
    ELSE LET pass == CollisionPass(pos, 1, 2, FALSE, rect, scale)
         IN  IF ~pass.moved THEN <<FALSE>>
             ELSE IF pass.pos = pos THEN [k \in 1..(iterations - i) |-> TRUE]
             ELSE <<TRUE>> \o CollisionPasses(pass.pos, i + 1, iterations, rect, scale)

\* The passes resolveCollisions runs on the nodes of v.
relaxationPasses(v, graph, rect, scale) ==
    LET nodes == MapValues(v.nodeState)
        iterations == IF Len(graph.nodes) > LARGE_GRAPH_THRESHOLD THEN 20 ELSE 120
    IN  CollisionPasses([n \in 1..Len(nodes) |-> [x |-> nodes[n].x, y |-> nodes[n].y]],
                        0, iterations, rect, scale)

\* Mutant of resolveCollisions: the positions are set and not saved.
resolveCollisionsUnsaved(v, graph, rect, scale) ==
    LET nodes == MapValues(v.nodeState)
        iterations == IF Len(graph.nodes) > LARGE_GRAPH_THRESHOLD THEN 20 ELSE 120
        pos == CollisionLoop([n \in 1..Len(nodes) |-> [x |-> nodes[n].x, y |-> nodes[n].y]],
                             0, iterations, rect, scale)
        RECURSIVE Store(_, _)
        Store(w, n) ==
            IF n > Len(nodes) THEN w
            ELSE Store([w EXCEPT
                          !.nodeState = MapSet(@, nodes[n].data.id,
                                               [nodes[n] EXCEPT !.x = pos[n].x, !.y = pos[n].y])],
                       n + 1)
    IN  Store(v, 1)

resolveCollisions(v, graph, rect, scale) ==
    LET nodes == MapValues(v.nodeState)
        iterations == IF Len(graph.nodes) > LARGE_GRAPH_THRESHOLD THEN 20 ELSE 120
        pos == CollisionLoop([n \in 1..Len(nodes) |-> [x |-> nodes[n].x, y |-> nodes[n].y]],
                             0, iterations, rect, scale)
        RECURSIVE Store(_, _)
        Store(w, n) ==
            IF n > Len(nodes) THEN w
            ELSE Store([w EXCEPT
                          !.nodeState = MapSet(@, nodes[n].data.id,
                                               [nodes[n] EXCEPT !.x = pos[n].x, !.y = pos[n].y]),
                          !.savedPositions = MapSet(@, nodes[n].data.id, pos[n])],
                       n + 1)
    IN  Store(v, 1)

\* layoutNodes(reset) up to resolveCollisions: the positions the nodes are
\* put at.
layoutTargets(v, graph, rect, scale, reset) ==
    LET viewWidth == ViewWidth(rect, scale)
        viewHeight == ViewHeight(rect, scale)
        connected == SelectSeq(graph.nodes, LAMBDA n : Degree(graph, n.id) > 0)
        isolated == SelectSeq(graph.nodes, LAMBDA n : Degree(graph, n.id) = 0)
        targets ==
            IF Len(graph.nodes) > LARGE_GRAPH_THRESHOLD
            THEN LET cols == CeilSqrt(Len(graph.nodes))
                     rows == (Len(graph.nodes) + cols - 1) \div cols
                     grid == [v EXCEPT !.layoutWidth = cols * NODE_SPACING + GRID_MARGIN * 2,
                                       !.layoutHeight = rows * NODE_SPACING + GRID_MARGIN * 2]
                 IN  PlaceNodes(grid, rect, scale, graph.nodes,
                                [i \in 1..Len(graph.nodes) |-> GridTarget(i - 1, cols)],
                                reset, 1)
            ELSE LET sorted == SortByDegree(graph, connected)
                     sized == [v EXCEPT !.layoutWidth = viewWidth, !.layoutHeight = viewHeight]
                     ring == PlaceNodes(sized, rect, scale, sorted,
                                        [i \in 1..Len(sorted) |->
                                            ConnectedTarget(i - 1, Len(sorted), viewWidth, viewHeight)],
                                        reset, 1)
                 IN  PlaceNodes(ring, rect, scale, isolated,
                                [i \in 1..Len(isolated) |->
                                    IsolatedTarget(i - 1, viewWidth, viewHeight)],
                                reset, 1)
    IN  targets

\* layoutNodes(reset) up to and with resolveCollisions.
layoutNodes(v, graph, rect, scale, reset) ==
    resolveCollisions(layoutTargets(v, graph, rect, scale, reset), graph, rect, scale)

\* The node elements createNode makes for the nodes of a graph.
CreateNodes(nodes) ==
    LET RECURSIVE Create(_, _)
        Create(m, i) ==
            IF i > Len(nodes) THEN m
            ELSE Create(MapSet(m, nodes[i].id, [data |-> nodes[i], x |-> 0, y |-> 0]), i + 1)
    IN  Create(<<>>, 1)

\* The object persistState hands to vscode.setState.
\* options.anchor of a zoomBy without anchor.
NoAnchor == [given |-> FALSE, x |-> 0, y |-> 0]

\* toGraphCoords(clientX, clientY, customScale), in whole pixels, with the
\* client point taken from the left top of the canvas.
toGraphCoords(client, pan, customScale) ==
    [x |-> ((client.x - pan.x) * 100) \div customScale,
     y |-> ((client.y - pan.y) * 100) \div customScale]

\* zoomBy(delta, options): the scale and the pan it leaves.
zoomBy(scale, pan, delta, anchor) ==
    LET prevScale == scale
        next == clamp(scale + delta, MIN_SCALE, MAX_SCALE)
    IN  IF ~anchor.given
        THEN [scale |-> next, pan |-> pan]
        ELSE LET before == toGraphCoords(anchor, pan, prevScale)
                 after == toGraphCoords(anchor, pan, next)
             IN  [scale |-> next,
                  pan |-> [x |-> pan.x + ((after.x - before.x) * next) \div 100,
                           y |-> pan.y + ((after.y - before.y) * next) \div 100]]

PersistedState(savedPositions, pan, scale) ==
    [positions |-> savedPositions, pan |-> pan, scale |-> scale]

\* savedPositions without the keys that are no node of the graph.
KeepCurrent(savedPositions, graph) ==
    SelectSeq(savedPositions,
              LAMBDA entry : entry[1] \in {graph.nodes[i].id : i \in 1..Len(graph.nodes)})

\* ------------------------------------------------------------------
\* State
\* ------------------------------------------------------------------
VARIABLES
    folders,        \* vscode.workspace.workspaceFolders, as fsPaths
    disk,           \* the directory of the workspace root on the disk
    pc,             \* "idle", "scanning", "settled" (getModelGraph is over), "shown"
    phpFiles,       \* getModelGraph: the files collectPhpFiles returned
    fileIndex,      \* getModelGraph: the position of the loop over phpFiles
    scan,           \* getModelGraph: nodes, relationships, warnings
    outcome,        \* how the promise of getModelGraph was settled
    promoted,       \* history: the [id, file] of every declaration that replaced a placeholder
    graphData,      \* webview: graphData
    nodeState,      \* webview: the Map nodeState
    visibleNodes,   \* webview: visibleNodes
    matchedNodes,   \* webview: matchedNodes
    searchValue,    \* webview: searchInput.value
    edges,          \* webview: the edges on the edge layer
    alerts,         \* webview: the alerts in the error container
    calls,          \* panel: the getModelGraph calls of _loadGraph, in the order of the requests
    edited,         \* panel: the workspace was edited after the first request
    shownCall,      \* panel: the call whose result the webview rendered last (0: none)
    canvas,         \* webview: width and height of canvas.getBoundingClientRect()
    scale,          \* webview: scale, in hundredths
    pan,            \* webview: pan
    layoutSize,     \* webview: layoutWidth and layoutHeight
    savedPositions, \* webview: the Map savedPositions
    persisted,      \* webview: the state handed to vscode.setState last
    dragged,        \* history: the last drag of a node, and whether a graph was rendered since
    placed,         \* history: the nodes the last layout put at a computed position
    gestures,       \* the number of messages, drags and clicks the webview on its own took
    asked,          \* history: scale + delta of the last zoomBy, before it is clamped
    passes          \* history: `moved` at the end of each pass of the last resolveCollisions

vars == <<folders, disk, pc, phpFiles, fileIndex, scan, outcome, promoted,
          graphData, nodeState, visibleNodes, matchedNodes, searchValue, edges, alerts,
          calls, edited, shownCall,
          canvas, scale, pan, layoutSize, savedPositions, persisted, dragged, placed, passes, gestures, asked>>

panelVars == <<calls, edited, shownCall>>

\* The panel variables of a behaviour that follows one call only.
PanelAtRest == calls = <<>> /\ edited = FALSE /\ shownCall = 0

scanVars == <<phpFiles, fileIndex, scan, outcome, promoted>>

viewVars == <<graphData, nodeState, visibleNodes, matchedNodes, searchValue, edges, alerts,
              canvas, scale, pan, layoutSize, savedPositions, persisted, dragged, placed, passes, gestures, asked>>

\* The size of the canvas of a panel that fills an editor group.
WideCanvas == [width |-> 1200, height |-> 800]

NoDrag == [id |-> Undefined, x |-> 0, y |-> 0, rendered |-> FALSE]

\* The layout variables of a webview that has just loaded with no saved state.
LayoutAtRest(rect) ==
    /\ canvas = rect
    /\ scale = DefaultScale
    /\ pan = NoPan
    /\ layoutSize = [width |-> 0, height |-> 0]
    /\ savedPositions = <<>>
    /\ persisted = PersistedState(<<>>, NoPan, DefaultScale)
    /\ dragged = NoDrag
    /\ placed = {}
    /\ passes = <<>>
    /\ gestures = 0
    /\ asked = DefaultScale

RootPath == <<nWorkspace>>

Pending == [kind |-> "pending", result |-> EmptyGraph]

Init ==
    /\ \E env \in {"no workspace", "unreadable root", "workspace"} :
       \E o \in IF env = "workspace" THEN Orders ELSE {<<1, 2>>} :
       \E f \in IF env = "workspace"
                THEN {g \in SUBSET Range(o) : Cardinality(g) <= MaxFailing}
                ELSE {{}} :
       \E sd \in IF env = "workspace" THEN {"absent", "readable", "unreadable"}
                 ELSE {"absent"} :
       \E k \in IF sd = "absent" THEN {Len(o)} ELSE {0, Len(o)} :
          /\ folders = IF env = "no workspace" THEN <<>> ELSE <<RootPath>>
          /\ disk = Tree(o, f, k, sd, env # "unreadable root")
    /\ pc = "idle"
    /\ phpFiles = <<>>
    /\ fileIndex = 1
    /\ scan = EmptyScan
    /\ outcome = Pending
    /\ promoted = {}
    /\ graphData = EmptyGraph
    /\ nodeState = <<>>
    /\ visibleNodes = {}
    /\ matchedNodes = {}
    /\ searchValue = <<>>
    /\ edges = <<>>
    /\ alerts = <<>>
    /\ PanelAtRest
    /\ LayoutAtRest(WideCanvas)

\* ------------------------------------------------------------------
\* Actions
\* ------------------------------------------------------------------
\* getModelGraph up to the loop: the workspace root and collectPhpFiles; an
\* exception of either ends the call in the outer catch.
StartScan ==
    /\ pc = "idle"
    /\ LET root == getWorkspaceRoot(folders)
           files == IF root.threw THEN root ELSE collectPhpFiles(root.value, disk)
       IN  IF files.threw
           THEN /\ outcome' = CatchScan(<<>>, files.message)
                /\ pc' = "settled"
                /\ UNCHANGED <<phpFiles, fileIndex, scan>>
           ELSE /\ phpFiles' = files.value
                /\ fileIndex' = 1
                /\ scan' = EmptyScan
                /\ pc' = "scanning"
                /\ UNCHANGED outcome
    /\ UNCHANGED <<folders, disk, promoted>>
    /\ UNCHANGED viewVars
    /\ UNCHANGED panelVars

\* The declarations of `file` that replace a placeholder of `nodes`.
Promotions(nodes, dir, root, file) ==
    LET read == readFile(dir, root, file)
        found == IF read.threw THEN <<>>
                 ELSE extractModel(root, file, read.value, extractUseStatements(read.value))
    IN  IF found # <<>> /\ MapHas(nodes, found[1].id) /\ MapGet(nodes, found[1].id).isExternal
        THEN {[id |-> found[1].id, file |-> file]}
        ELSE {}

\* One pass of the loop of getModelGraph over phpFiles.
ScanFile ==
    /\ pc = "scanning"
    /\ fileIndex <= Len(phpFiles)
    /\ scan' = ProcessFile(scan, disk, RootPath, phpFiles[fileIndex])
    /\ promoted' = promoted \cup Promotions(scan.nodes, disk, RootPath, phpFiles[fileIndex])
    /\ fileIndex' = fileIndex + 1
    /\ UNCHANGED <<folders, disk, pc, phpFiles, outcome>>
    /\ UNCHANGED viewVars
    /\ UNCHANGED panelVars

\* The return of getModelGraph after the loop.
ReturnScan ==
    /\ pc = "scanning"
    /\ fileIndex > Len(phpFiles)
    /\ outcome' = ReturnGraph(scan)
    /\ pc' = "settled"
    /\ UNCHANGED <<folders, disk, phpFiles, fileIndex, scan, promoted>>
    /\ UNCHANGED viewVars
    /\ UNCHANGED panelVars

\* renderGraph(payload): the graph data, the saved positions of nodes that are
\* gone, the alerts, the node elements, layoutNodes(false) with its
\* persistState, then applySearch(searchInput.value), whose drawEdges is the
\* last one.
renderGraph(payload) ==
    /\ graphData' = payload
    /\ alerts' = GraphAlerts(payload)
    /\ IF Len(payload.nodes) = 0
       THEN /\ nodeState' = <<>>
            /\ edges' = <<>>
            /\ savedPositions' = KeepCurrent(savedPositions, payload)
            /\ UNCHANGED <<visibleNodes, matchedNodes, layoutSize, persisted>>
       ELSE LET laid == layoutNodes([nodeState |-> CreateNodes(payload.nodes),
                                     savedPositions |-> KeepCurrent(savedPositions, payload),
                                     layoutWidth |-> layoutSize.width,
                                     layoutHeight |-> layoutSize.height],
                                    payload, canvas, scale, FALSE)
                found == applySearch(payload, searchValue)
            IN  /\ nodeState' = laid.nodeState
                /\ savedPositions' = laid.savedPositions
                /\ layoutSize' = [width |-> laid.layoutWidth, height |-> laid.layoutHeight]
                /\ persisted' = PersistedState(laid.savedPositions, pan, scale)
                /\ visibleNodes' = found.visibleNodes
                /\ matchedNodes' = found.matchedNodes
                /\ edges' = drawEdges(payload, found.visibleNodes, MapKeys(laid.nodeState))
    /\ UNCHANGED <<searchValue, canvas, scale, pan>>

\* showError(message)
showError(message) ==
    /\ alerts' = Append(alerts, [class |-> "alert-error", text |-> message])
    /\ UNCHANGED <<graphData, nodeState, visibleNodes, matchedNodes, searchValue, edges>>
    /\ UNCHANGED <<canvas, scale, pan, layoutSize, savedPositions, persisted>>

\* ModelGraphPanel._loadGraph posts the settled call to the webview, whose
\* message listener renders it.
ShowGraph ==
    /\ pc = "settled"
    /\ pc' = "shown"
    /\ IF outcome.kind = "fulfilled"
       THEN renderGraph(outcome.result)
       ELSE showError(outcome.result.error)
    /\ UNCHANGED <<folders, disk, dragged, placed, passes, gestures, asked>>
    /\ UNCHANGED scanVars
    /\ UNCHANGED panelVars

\* The input listener of the search box: applySearch(e.target.value).
Search ==
    /\ pc \in {"shown", "ui"}
    /\ \E term \in Queries :
          /\ term # searchValue
          /\ searchValue' = term
          /\ LET found == applySearch(graphData, term)
             IN  /\ visibleNodes' = found.visibleNodes
                 /\ matchedNodes' = found.matchedNodes
                 /\ edges' = drawEdges(graphData, found.visibleNodes, MapKeys(nodeState))
    /\ UNCHANGED <<graphData, nodeState, alerts>>
    /\ UNCHANGED <<canvas, scale, pan, layoutSize, savedPositions, persisted, dragged, placed, passes, gestures, asked>>
    /\ UNCHANGED <<folders, disk, pc>>
    /\ UNCHANGED scanVars
    /\ UNCHANGED panelVars

Next == StartScan \/ ScanFile \/ ReturnScan \/ ShowGraph \/ Search

Spec == Init /\ [][Next]_vars

\* ------------------------------------------------------------------
\* Properties
\* ------------------------------------------------------------------
Settled == pc \in {"settled", "shown"}

\* The call returned a graph without a top-level error.
Returned == Settled /\ outcome.kind = "fulfilled" /\ outcome.result.error = NoError

UniqueIds(nodes) == \A i, j \in 1..Len(nodes) : nodes[i].id = nodes[j].id => i = j

NodesWithId(nodes, id) == {i \in 1..Len(nodes) : nodes[i].id = id}

\* The id of the model a file of the scan declares; Undefined when the file
\* cannot be read or declares no model.
DeclaredId(file) ==
    LET read == readFile(disk, RootPath, file)
        found == IF read.threw THEN <<>>
                 ELSE extractModel(RootPath, file, read.value, extractUseStatements(read.value))
    IN  IF found = <<>> THEN Undefined ELSE found[1].id

Position(file) == CHOOSE i \in 1..Len(phpFiles) : phpFiles[i] = file

\* C1: in the graph getModelGraph returns, and in the nodes Map at every point
\* of the scan, no two nodes have the same id, whether the id was first seen as
\* a declaration or as a relationship target.
C1_OneNodePerId ==
    /\ UniqueIds(MapValues(scan.nodes))
    /\ Settled => UniqueIds(outcome.result.nodes)

\* A returned graph in which an id first seen as a relationship target was
\* declared later, and which holds placeholders as well.
C1_Witness ==
    /\ Returned
    /\ promoted # {}
    /\ \E i \in 1..Len(outcome.result.nodes) : outcome.result.nodes[i].isExternal
    /\ Len(outcome.result.nodes) >= 3

C3_SourcesAreDeclared ==
    /\ \A i \in 1..Len(scan.relationships) :
          /\ MapHas(scan.nodes, scan.relationships[i].source)
          /\ MapGet(scan.nodes, scan.relationships[i].source).isExternal = FALSE
    /\ Settled =>
          \A i \in 1..Len(outcome.result.relationships) :
              LET hits == NodesWithId(outcome.result.nodes,
                                      outcome.result.relationships[i].source)
              IN  /\ hits # {}
                  /\ \A n \in hits : outcome.result.nodes[n].isExternal = FALSE

\* A returned graph with a relationship to a placeholder and a relationship
\* whose target was declared before the relationship was found.
C3_Witness ==
    /\ Returned
    /\ \E i, j \in 1..Len(outcome.result.relationships) :
          /\ \E n \in NodesWithId(outcome.result.nodes, outcome.result.relationships[i].target) :
                outcome.result.nodes[n].isExternal
          /\ \E n \in NodesWithId(outcome.result.nodes, outcome.result.relationships[j].target) :
                /\ ~outcome.result.nodes[n].isExternal
                /\ \E k \in 1..Len(phpFiles) :
                      /\ phpFiles[k] = outcome.result.nodes[n].filePath
                      /\ k < Position(outcome.result.relationships[j].filePath)

LastSegment(id) == Split(id, Sep)[Len(Split(id, Sep))]

RemainingSegments(id) ==
    IF Len(Split(id, Sep)) <= 1 THEN Undefined
    ELSE Join(SubSeq(Split(id, Sep), 1, Len(Split(id, Sep)) - 1), Sep)

\* node is the placeholder of its id, with the given name.
PlaceholderShape(node, name) ==
    /\ node.name = name
    /\ node.namespace = RemainingSegments(node.id)
    /\ node.filePath = <<>>
    /\ node.relativePath = <<>>

\* The target of every relationship has a node.
TargetsHaveNodes(nodes, relationships) ==
    \A i \in 1..Len(relationships) : NodesWithId(nodes, relationships[i].target) # {}

ReadFails(file) == readFile(disk, RootPath, file).threw

ReadableFiles == SelectSeq(phpFiles, LAMBDA file : ~ReadFails(file))

FailingFiles == SelectSeq(phpFiles, LAMBDA file : ReadFails(file))

\* The accumulators after the loop of getModelGraph over files.
RECURSIVE ScanAll(_, _)
ScanAll(acc, files) ==
    IF files = <<>> THEN acc
    ELSE ScanAll(ProcessFile(acc, disk, RootPath, Head(files)), Tail(files))

\* C5: when files of the scan cannot be read, the scan still returns: nodes
\* and relationships are those of the scan of the other files alone, no node
\* and no relationship carries the path of a failing file, and the warnings
\* are one "Could not parse <basename>: <message>" per failing file.
C5_FailingFileSkipped ==
    Returned =>
        LET others == ScanAll(EmptyScan, ReadableFiles)
        IN  /\ outcome.result.nodes = MapValues(others.nodes)
            /\ outcome.result.relationships = others.relationships
            /\ \A i \in 1..Len(FailingFiles) :
                  /\ \A n \in 1..Len(outcome.result.nodes) :
                        outcome.result.nodes[n].filePath # FailingFiles[i]
                  /\ \A r \in 1..Len(outcome.result.relationships) :
                        outcome.result.relationships[r].filePath # FailingFiles[i]
            /\ outcome.result.warnings =
                  [i \in 1..Len(FailingFiles) |->
                      <<"Could not parse ", PathBasename(FailingFiles[i]), ": ", ReadFileMessage>>]

\* A returned graph of a scan in which one file failed, a file scanned
\* before it and a file scanned after it each having put a node in the graph.
C5_Witness ==
    /\ Returned
    /\ Len(FailingFiles) = 1
    /\ \E a, b \in 1..Len(outcome.result.nodes) :
          /\ outcome.result.nodes[a].filePath # <<>>
          /\ outcome.result.nodes[b].filePath # <<>>
          /\ Position(outcome.result.nodes[a].filePath) < Position(FailingFiles[1])
          /\ Position(FailingFiles[1]) < Position(outcome.result.nodes[b].filePath)

\* C6: when no workspace folder is open or the root directory cannot be
\* enumerated, getModelGraph returns no nodes, no relationships and the
\* message of the failure as error; a graph with an error never holds a node
\* or a relationship.
C6_FatalErrorGivesEmptyGraph ==
    /\ Settled /\ (folders = <<>> \/ ~disk.readable) =>
          /\ outcome.kind = "fulfilled"
          /\ outcome.result.nodes = <<>>
          /\ outcome.result.relationships = <<>>
          /\ outcome.result.error =
                IF folders = <<>> THEN NoWorkspaceMessage ELSE ReaddirMessage
    /\ Settled /\ outcome.result.error # NoError =>
          outcome.result.nodes = <<>> /\ outcome.result.relationships = <<>>

\* The call is over for a workspace whose root directory cannot be read.
C6_Witness ==
    /\ Settled
    /\ folders # <<>>
    /\ ~disk.readable
    /\ outcome.result.error = ReaddirMessage

\* C7: getModelGraph never ends with an exception: whatever fails, the call
\* returns a graph value with nodes, relationships, warnings and error, and
\* until then it is at a step it can take (the start, a file of the loop, or
\* the return).
C7_NeverRejects ==
    /\ outcome.kind # "rejected"
    /\ Settled =>
          /\ outcome.kind = "fulfilled"
          /\ DOMAIN outcome.result = {"nodes", "relationships", "warnings", "error"}
    /\ ~Settled =>
          \/ pc = "idle"
          \/ pc = "scanning" /\ fileIndex \in 1..(Len(phpFiles) + 1)

\* A call that ended in the outer catch, and not for the root directory.
C7_Witness ==
    /\ Settled
    /\ disk.readable
    /\ outcome.kind = "fulfilled"
    /\ outcome.result.error = ReaddirMessage

\* The directories directly below the root that collectPhpFiles enters and
\* cannot read.
UnreadableSubdirs ==
    {i \in 1..Len(disk.entries) :
        /\ disk.entries[i].kind = "dir"
        /\ ~disk.entries[i].readable
        /\ ~startsWith(disk.entries[i].name, <<".">>)
        /\ disk.entries[i].name \notin skipDirs}

\* The PHP files of the directories that can be read.
FilesElsewhere ==
    collectPhpFiles(RootPath,
                    [disk EXCEPT !.entries =
                        SelectSeq(@, LAMBDA entry : entry.kind # "dir" \/ entry.readable)]).value

\* C8: an unreadable directory below a readable root does not abort the scan:
\* no top-level error, a warning, and the nodes and relationships of the
\* files of the other directories.
C8_UnreadableSubdirectorySkipped ==
    Settled /\ folders # <<>> /\ disk.readable /\ UnreadableSubdirs # {} =>
        /\ outcome.result.error = NoError
        /\ Len(outcome.result.warnings) >= 1
        /\ outcome.result.nodes = MapValues(ScanAll(EmptyScan, FilesElsewhere).nodes)
        /\ outcome.result.relationships = ScanAll(EmptyScan, FilesElsewhere).relationships

Letters == Range(UpperCase) \cup Range(LowerCase)

\* text is a plain class name: letters, underscores and separators.
IsClassName(text) ==
    text # <<>> /\ \A i \in 1..Len(text) : text[i] \in Letters \cup {"_", Sep}

\* The first argument of the helper call of method m is neither a ::class
\* reference nor a quoted string nor a plain class name.
HasDynamicArgument(m) ==
    /\ m.relation # Undefined
    /\ RelationArgs(m.call) # Undefined
    /\ LET firstArg == trim(Split(RelationArgs(m.call), ",")[1])
       IN  /\ firstArg # <<>>
           /\ ~includes(firstArg, sClassLiteral)
           /\ ~IsQuote(Head(firstArg))
           /\ ~IsClassName(firstArg)

\* C9: a method whose helper call has a dynamic first argument yields no
\* relationship and no warning, and the scan returns.
C9_DynamicArgumentDropped ==
    Settled =>
        /\ outcome.kind = "fulfilled"
        /\ Len(outcome.result.warnings) = Len(FailingFiles)
        /\ \A k \in 1..Len(phpFiles) :
              ~ReadFails(phpFiles[k]) =>
                  LET methods == readFile(disk, RootPath, phpFiles[k]).value.methods
                  IN  \A m \in 1..Len(methods) :
                          HasDynamicArgument(methods[m]) =>
                              \A r \in 1..Len(outcome.result.relationships) :
                                  ~ /\ outcome.result.relationships[r].filePath = phpFiles[k]
                                    /\ outcome.result.relationships[r].method = methods[m].method

sAppPost == <<"A", "p", "p", "\\", "P", "o", "s", "t">>

sAppComment == <<"A", "p", "p", "\\", "C", "o", "m", "m", "e", "n", "t">>

\* The scan found the files of App\Post and App\Comment and no other, in
\* either order, and read both.
PostAndCommentScanned ==
    /\ Len(phpFiles) = 2
    /\ {PathBasename(phpFiles[1]), PathBasename(phpFiles[2])} = {nPostPhp, nCommentPhp}
    /\ FailingFiles = <<>>

\* The cardinality a drawn edge shows on the side of node id.
SideCardinality(edge, id) ==
    IF edge.fromId = id THEN edge.sourceCardinality ELSE edge.targetCardinality

\* C10: App\Post with comments() hasMany(Comment::class) and App\Comment with
\* post() belongsTo(Post::class), scanned in either order and rendered, under
\* every search text: two nodes, no warning, and one edge labelled
\* "One To Many" that shows one on the side of App\Post and many on the side
\* of App\Comment.
C10_PostCommentOneToMany ==
    pc = "shown" /\ PostAndCommentScanned =>
        /\ Len(graphData.nodes) = 2
        /\ NodeIds(graphData) = {sAppPost, sAppComment}
        /\ graphData.warnings = <<>>
        /\ graphData.error = NoError
        /\ Len(edges) = 1
        /\ {edges[1].fromId, edges[1].toId} = {sAppPost, sAppComment}
        /\ edges[1].label = sOneToMany
        /\ SideCardinality(edges[1], sAppPost) = "one"
        /\ SideCardinality(edges[1], sAppComment) = "many"

\* The two files rendered after a scan that read Comment.php first.
C10_Witness ==
    /\ pc = "shown"
    /\ PostAndCommentScanned
    /\ PathBasename(phpFiles[1]) = nCommentPhp
    /\ Len(edges) = 1
    /\ edges[1].label = sOneToMany

\* ------------------------------------------------------------------
\* drawEdges on its own: every short relationship list between three nodes
\* ------------------------------------------------------------------
\* The node extractModel builds for class App\<name> in <name>.php.
GraphNode(name) ==
    [id |-> sApp \o <<Sep>> \o name,
     name |-> name,
     namespace |-> sApp,
     filePath |-> <<nWorkspace, name \o sDotPhp>>,
     relativePath |-> <<name \o sDotPhp>>,
     isExternal |-> FALSE]

\* The relationship extractRelationships builds for a method of App\<source>
\* that returns $this-><relation>(<target>::class).
GraphRelationship(source, target, relation) ==
    [source |-> GraphNode(source).id,
     target |-> GraphNode(target).id,
     type |-> mapRelationInfo(relation).label,
     relation |-> relation,
     method |-> "related",
     filePath |-> GraphNode(source).filePath,
     sourceCardinality |-> mapRelationInfo(relation).sourceCardinality,
     targetCardinality |-> mapRelationInfo(relation).targetCardinality]

\* One helper for each pair of cardinalities of mapRelationInfo.
MergedRelations == {sHasOne, sHasMany, sBelongsTo, sBelongsToMany}

\* Both directions of one pair, a relationship of a model to itself, and a
\* second pair.
MergedPairs == {<<sPost, sComment>>, <<sComment, sPost>>, <<sPost, sPost>>, <<sPost, sUser>>}

MergedChoices ==
    {GraphRelationship(pair[1], pair[2], relation) : pair \in MergedPairs, relation \in MergedRelations}

MergedLists == UNION {[1..n -> MergedChoices] : n \in 0..MaxMerged}

MergedNodes == <<GraphNode(sPost), GraphNode(sComment), GraphNode(sUser)>>

\* The visible sets drawEdges runs with: all nodes, none, two of three.
MergedVisible == {{MergedNodes[i].id : i \in 1..3}, {}, {MergedNodes[1].id, MergedNodes[2].id}}

\* The scan variables of a panel whose scan is not part of the behaviour.
ScanAtRest ==
    /\ folders = <<>>
    /\ disk = DirEntry(nWorkspace, TRUE, <<>>)
    /\ phpFiles = <<>>
    /\ fileIndex = 1
    /\ scan = EmptyScan
    /\ outcome = Pending
    /\ promoted = {}

EdgeInit ==
    /\ ScanAtRest
    /\ pc = "rendered"
    /\ \E rels \in MergedLists :
          graphData = [nodes |-> MergedNodes, relationships |-> rels,
                       warnings |-> <<>>, error |-> NoError]
    /\ nodeState = CreateNodes(MergedNodes)
    /\ visibleNodes \in MergedVisible
    /\ matchedNodes = {}
    /\ searchValue = <<>>
    /\ edges = <<>>
    /\ alerts = <<>>
    /\ PanelAtRest
    /\ LayoutAtRest(WideCanvas)

\* drawEdges()
DrawEdges ==
    /\ pc = "rendered"
    /\ pc' = "drawn"
    /\ edges' = drawEdges(graphData, visibleNodes, MapKeys(nodeState))
    /\ UNCHANGED <<graphData, nodeState, visibleNodes, matchedNodes, searchValue, alerts>>
    /\ UNCHANGED <<canvas, scale, pan, layoutSize, savedPositions, persisted, dragged, placed, passes, gestures, asked>>
    /\ UNCHANGED <<folders, disk>>
    /\ UNCHANGED scanVars
    /\ UNCHANGED panelVars

EdgeNext == DrawEdges

EdgeSpec == EdgeInit /\ [][EdgeNext]_vars

\* The relationships drawEdges does not skip.
Contributing ==
    SelectSeq(graphData.relationships,
              LAMBDA rel : visibleNodes = {} \/ (rel.source \in visibleNodes /\ rel.target \in visibleNodes))

\* The relationships of Contributing between the two ends of an edge.
ContributingTo(edge) ==
    SelectSeq(Contributing, LAMBDA rel : {rel.source, rel.target} = {edge.fromId, edge.toId})

\* rel marks the side of node id as many; declared is the side the source of
\* a relationship of a model to itself stands on.
MarksMany(rel, id, declared) ==
    IF rel.source = rel.target
    THEN (IF declared THEN rel.sourceCardinality ELSE rel.targetCardinality) = "many"
    ELSE (IF rel.source = id THEN rel.sourceCardinality ELSE rel.targetCardinality) = "many"

AnyMarksMany(rels, id, declared) == \E i \in 1..Len(rels) : MarksMany(rels[i], id, declared)

\* C11: drawEdges draws one edge for every unordered pair that has a
\* contributing relationship, and the edge shows many on the side of a node
\* exactly when some contributing relationship marks the side of that node
\* many (the cardinalities of a relationship declared in the reverse direction
\* being swapped), and one otherwise.
C11_MergedSideMany ==
    pc = "drawn" =>
        /\ \A k \in 1..Len(Contributing) :
              Cardinality({i \in 1..Len(edges) :
                  {edges[i].fromId, edges[i].toId}
                      = {Contributing[k].source, Contributing[k].target}}) = 1
        /\ \A i \in 1..Len(edges) :
              LET rels == ContributingTo(edges[i])
              IN  /\ rels # <<>>
                  /\ edges[i].sourceCardinality =
                        IF AnyMarksMany(rels, edges[i].fromId, TRUE) THEN "many" ELSE "one"
                  /\ edges[i].targetCardinality =
                        IF AnyMarksMany(rels, edges[i].toId, FALSE) THEN "many" ELSE "one"

\* An edge merged from two relationships declared in opposite directions, the
\* earlier of which marks a side many that the later one marks one.
C11_Witness ==
    /\ pc = "drawn"
    /\ Len(graphData.relationships) = 2
    /\ graphData.relationships[1].source = graphData.relationships[2].target
    /\ graphData.relationships[1].target = graphData.relationships[2].source
    /\ graphData.relationships[1].source # graphData.relationships[1].target
    /\ graphData.relationships[1].relation = sBelongsToMany
    /\ graphData.relationships[2].relation = sHasOne
    /\ Len(edges) = 1
    /\ edges[1].sourceCardinality = "many"
    /\ edges[1].targetCardinality = "many"

\* ------------------------------------------------------------------
\* ModelGraphPanel: the graph requests of one panel
\* ------------------------------------------------------------------
\* Mutant of NewAccumulators: a call goes on with the accumulators of the call
\* before it.
KeptAccumulators(previous) == previous

\* const warnings = [], nodes = new Map(), relationships = []: the locals of a
\* getModelGraph call; previous is what the call before it has accumulated.
NewAccumulators(previous) == EmptyScan

\* getModelGraph up to its loop, as a call of its own: the state of the call.
BeginCall(workspaceFolders, dir, previous) ==
    LET root == getWorkspaceRoot(workspaceFolders)
        files == IF root.threw THEN root ELSE collectPhpFiles(root.value, dir)
        fresh == NewAccumulators(previous)
    IN  IF files.threw
        THEN [pc |-> "settled", phpFiles |-> <<>>, fileIndex |-> 1, scan |-> fresh,
              outcome |-> CatchScan(fresh.warnings, files.message)]
        ELSE [pc |-> "scanning", phpFiles |-> files.value, fileIndex |-> 1, scan |-> fresh,
              outcome |-> Pending]

\* The workspaces a panel is opened on: up to MaxPanelFiles files in the root.
PanelOrders == {o \in Orders : Len(o) <= MaxPanelFiles}

PanelInit ==
    /\ folders = <<RootPath>>
    /\ \E o \in PanelOrders : disk = Tree(o, {}, Len(o), "absent", TRUE)
    /\ pc = "panel"
    /\ phpFiles = <<>>
    /\ fileIndex = 1
    /\ scan = EmptyScan
    /\ outcome = Pending
    /\ promoted = {}
    /\ graphData = EmptyGraph
    /\ nodeState = <<>>
    /\ visibleNodes = {}
    /\ matchedNodes = {}
    /\ searchValue = <<>>
    /\ edges = <<>>
    /\ alerts = <<>>
    /\ PanelAtRest
    /\ LayoutAtRest(WideCanvas)

\* createOrShow, or a 'ready' or 'refresh' message: _loadGraph calls
\* getModelGraph, whatever the calls before it are doing.
RequestGraph ==
    /\ pc = "panel"
    /\ Len(calls) < MaxRequests
    /\ calls' = Append(calls,
                       BeginCall(folders, disk,
                                 IF calls = <<>> THEN EmptyScan ELSE calls[Len(calls)].scan))
    /\ UNCHANGED <<edited, shownCall, folders, disk, pc>>
    /\ UNCHANGED scanVars
    /\ UNCHANGED viewVars

\* One pass of the loop of one of the calls.
CallScanFile ==
    /\ pc = "panel"
    /\ \E c \in 1..Len(calls) :
          /\ calls[c].pc = "scanning"
          /\ calls[c].fileIndex <= Len(calls[c].phpFiles)
          /\ calls' = [calls EXCEPT
                          ![c].scan = ProcessFile(@, disk, RootPath,
                                                  calls[c].phpFiles[calls[c].fileIndex]),
                          ![c].fileIndex = @ + 1]
    /\ UNCHANGED <<edited, shownCall, folders, disk, pc>>
    /\ UNCHANGED scanVars
    /\ UNCHANGED viewVars

\* The end of one of the calls: getModelGraph returns, _loadGraph goes on
\* after its await in the same turn of the event loop and posts the result to
\* the webview, whose message listener renders the messages in the order in
\* which they were posted.
CallFinish ==
    /\ pc = "panel"
    /\ \E c \in 1..Len(calls) :
          /\ \/ calls[c].pc = "settled"
             \/ calls[c].pc = "scanning" /\ calls[c].fileIndex > Len(calls[c].phpFiles)
          /\ LET result == IF calls[c].pc = "settled" THEN calls[c].outcome
                           ELSE ReturnGraph(calls[c].scan)
             IN  /\ calls' = [calls EXCEPT ![c].outcome = result, ![c].pc = "posted"]
                 /\ IF result.kind = "fulfilled"
                    THEN renderGraph(result.result)
                    ELSE showError(result.result.error)
          /\ shownCall' = c
    /\ UNCHANGED <<edited, folders, disk, pc, dragged, placed, passes, gestures, asked>>
    /\ UNCHANGED scanVars

\* The user adds a PHP file to the workspace root after the first request.
EditWorkspace ==
    /\ pc = "panel"
    /\ calls # <<>>
    /\ ~edited
    /\ \E i \in PoolIds :
          /\ \A k \in 1..Len(disk.entries) : disk.entries[k].name # FilePool[i].name
          /\ disk' = [disk EXCEPT !.entries = Append(@, FileEntry(i, {}))]
    /\ edited' = TRUE
    /\ UNCHANGED <<calls, shownCall, folders, pc>>
    /\ UNCHANGED scanVars
    /\ UNCHANGED viewVars

PanelNext == RequestGraph \/ CallScanFile \/ CallFinish \/ EditWorkspace

PanelSpec == PanelInit /\ [][PanelNext]_vars

CallOver(c) == calls[c].pc = "posted"

C19_LaterRequestShown ==
    Len(calls) = 2 /\ calls[1].pc = "posted" /\ calls[2].pc = "posted" =>
        /\ graphData.nodes = calls[2].outcome.result.nodes
        /\ graphData.relationships = calls[2].outcome.result.relationships

\* ------------------------------------------------------------------
\* Search: properties of the scanned and rendered graph
\* ------------------------------------------------------------------
\* text contains query, whatever the case of the letters.
ContainsQuery(text, query) == includes(toLowerCase(text), toLowerCase(query))

\* The nodes of graphData that match query by name, namespace or the type
\* of a relationship that touches them.
MatchingNodes(query) ==
    {graphData.nodes[n].id : n \in
        {k \in 1..Len(graphData.nodes) :
            \/ ContainsQuery(graphData.nodes[k].name, query)
            \/ /\ graphData.nodes[k].namespace # Undefined
               /\ ContainsQuery(graphData.nodes[k].namespace, query)
            \/ \E i \in 1..Len(graphData.relationships) :
                  /\ graphData.nodes[k].id \in {graphData.relationships[i].source,
                                                 graphData.relationships[i].target}
                  /\ ContainsQuery(graphData.relationships[i].type, query)}}

\* The ids one relationship joins to a node of ids.
JoinedTo(ids) ==
    {graphData.relationships[i].target :
        i \in {j \in 1..Len(graphData.relationships) : graphData.relationships[j].source \in ids}}
    \cup
    {graphData.relationships[i].source :
        i \in {j \in 1..Len(graphData.relationships) : graphData.relationships[j].target \in ids}}

\* C17: after applySearch, under a non-empty query the visible nodes are the
\* matched nodes (name, namespace or the type of a touching relationship
\* contains the query, case-insensitively) and the nodes one relationship
\* joins to a matched node; under the empty query every node is visible.
C17_VisibleIsMatchedAndNeighbours ==
    pc = "shown" =>
        IF searchValue = <<>>
        THEN visibleNodes = NodeIds(graphData)
        ELSE /\ matchedNodes = MatchingNodes(searchValue)
             /\ visibleNodes = MatchingNodes(searchValue) \cup JoinedTo(MatchingNodes(searchValue))

\* A search by name that shows a node which does not match, next to a
\* matched one, and hides a third.
C17_Witness ==
    /\ pc = "shown"
    /\ searchValue = qPost
    /\ matchedNodes # {}
    /\ visibleNodes \ matchedNodes # {}
    /\ NodeIds(graphData) \ visibleNodes # {}

\* C18: after applySearch with any query, no drawn edge touches a hidden
\* node: both ends of every drawn edge are visible.
C18_NoEdgeToHiddenNode ==
    pc = "shown" =>
        \A i \in 1..Len(edges) :
            edges[i].fromId \in visibleNodes /\ edges[i].toId \in visibleNodes

\* ------------------------------------------------------------------
\* The webview on its own: graphs delivered, nodes dragged, layout buttons
\* ------------------------------------------------------------------
sTag == <<"T", "a", "g">>

sProfile == <<"P", "r", "o", "f", "i", "l", "e">>

\* The models of the delivered graphs, in the order of graph.nodes.
ViewNames == <<sPost, sComment, sUser, sTag, sProfile>>

\* A graph of the first n models with a hasMany from model i to model i + 1
\* for every i of links.
ViewGraph(n, links) ==
    [nodes |-> [i \in 1..n |-> GraphNode(ViewNames[i])],
     relationships |->
        LET RECURSIVE Chain(_)
            Chain(i) ==
                IF i >= n THEN <<>>
                ELSE (IF i \in links
                      THEN <<GraphRelationship(ViewNames[i], ViewNames[i + 1], sHasMany)>>
                      ELSE <<>>) \o Chain(i + 1)
        IN  Chain(1),
     warnings |-> <<>>,
     error |-> NoError]

\* The delivered graphs: up to MaxNodes models, unrelated or in one chain.
ViewGraphs == {ViewGraph(n, links) : n \in 0..MaxNodes, links \in {{}, 1..(MaxNodes - 1)}}

\* The size of the canvas of a panel in a low and narrow editor group.
SmallCanvas == [width |-> 300, height |-> 150]

\* The size of the canvas of a panel in a wide and low editor group.
LowCanvas == [width |-> 1000, height |-> 400]

CanvasSizes == {WideCanvas, SmallCanvas, LowCanvas}

\* Where a drag can leave a node: a free place, or where the first node is.
DropPoints ==
    {[x |-> 40, y |-> 40]}
    \cup {[x |-> nodeState[i][2].x, y |-> nodeState[i][2].y] : i \in 1..Min(1, Len(nodeState))}

\* The passes of the resolveCollisions that renderGraph(payload) runs in its
\* layoutNodes(false); a payload without nodes runs none.
PassesOfRender(payload) ==
    IF Len(payload.nodes) = 0 THEN passes
    ELSE relaxationPasses(layoutTargets([nodeState |-> CreateNodes(payload.nodes),
                                         savedPositions |-> KeepCurrent(savedPositions, payload),
                                         layoutWidth |-> layoutSize.width,
                                         layoutHeight |-> layoutSize.height],
                                        payload, canvas, scale, FALSE),
                          payload, canvas, scale)

\* The passes of the resolveCollisions of layoutNodes(reset) after a click on
\* centre or reset.
PassesOfLayout(reset) ==
    relaxationPasses(layoutTargets([nodeState |-> nodeState,
                                    savedPositions |-> savedPositions,
                                    layoutWidth |-> layoutSize.width,
                                    layoutHeight |-> layoutSize.height],
                                   graphData, canvas, DefaultScale, reset),
                     graphData, canvas, DefaultScale)

\* The nodes a layout puts at a computed position.
PlacedBy(graph, saved, reset) ==
    {graph.nodes[i].id : i \in {k \in 1..Len(graph.nodes) :
                                    reset \/ ~MapHas(saved, graph.nodes[k].id)}}

ViewInit ==
    /\ ScanAtRest
    /\ PanelAtRest
    /\ pc = "view"
    /\ graphData = EmptyGraph
    /\ nodeState = <<>>
    /\ visibleNodes = {}
    /\ matchedNodes = {}
    /\ searchValue = <<>>
    /\ edges = <<>>
    /\ alerts = <<>>
    /\ \E rect \in CanvasSizes : LayoutAtRest(rect)

\* A 'model-graph-data' message: renderGraph(message.data).
Deliver ==
    /\ pc = "view"
    /\ gestures < MaxGestures
    /\ gestures' = gestures + 1
    /\ \E graph \in ViewGraphs :
          /\ renderGraph(graph)
          /\ placed' = PlacedBy(graph, KeepCurrent(savedPositions, graph), FALSE)
          /\ passes' = PassesOfRender(graph)
    /\ dragged' = IF dragged.id # Undefined /\ ~dragged.rendered
                  THEN [dragged EXCEPT !.rendered = TRUE]
                  ELSE NoDrag
    /\ UNCHANGED <<folders, disk, pc, asked>>
    /\ UNCHANGED scanVars
    /\ UNCHANGED panelVars

\* A drag of a node: pointerdown, the last pointermove, which sets the
\* position and draws the edges, and pointerup, which persists the state.
DragNode ==
    /\ \/ pc = "view" /\ gestures < MaxGestures
       \/ pc = "ui" /\ gestures < MaxUiGestures
    /\ gestures' = gestures + 1
    /\ \E id \in MapKeys(nodeState), point \in DropPoints :
          LET moved == setNodePosition([nodeState |-> nodeState,
                                        savedPositions |-> savedPositions,
                                        layoutWidth |-> layoutSize.width,
                                        layoutHeight |-> layoutSize.height],
                                       canvas, scale, id, point.x, point.y, FALSE)
          IN  /\ nodeState' = moved.nodeState
              /\ savedPositions' = moved.savedPositions
              /\ persisted' = PersistedState(moved.savedPositions, pan, scale)
              /\ edges' = drawEdges(graphData, visibleNodes, MapKeys(moved.nodeState))
              /\ dragged' = [id |-> id,
                             x |-> MapGet(moved.nodeState, id).x,
                             y |-> MapGet(moved.nodeState, id).y,
                             rendered |-> FALSE]
    /\ placed' = {}
    /\ UNCHANGED passes
    /\ UNCHANGED <<graphData, visibleNodes, matchedNodes, searchValue, alerts>>
    /\ UNCHANGED <<canvas, scale, pan, layoutSize>>
    /\ UNCHANGED <<folders, disk, pc, asked>>
    /\ UNCHANGED scanVars
    /\ UNCHANGED panelVars

\* centerLayout(true) with reset = FALSE and resetLayout() with reset = TRUE:
\* the default pan and scale, then layoutNodes(reset) with its persistState
\* and drawEdges.
LayoutClick(reset) ==
    /\ \/ pc = "view" /\ gestures < MaxGestures
       \/ pc = "zoom" /\ gestures < MaxZooms
       \/ pc = "ui" /\ gestures < MaxUiGestures
    /\ gestures' = gestures + 1
    /\ pan' = NoPan
    /\ scale' = DefaultScale
    /\ LET laid == layoutNodes([nodeState |-> nodeState,
                                savedPositions |-> savedPositions,
                                layoutWidth |-> layoutSize.width,
                                layoutHeight |-> layoutSize.height],
                               graphData, canvas, DefaultScale, reset)
       IN  /\ nodeState' = laid.nodeState
           /\ savedPositions' = laid.savedPositions
           /\ layoutSize' = [width |-> laid.layoutWidth, height |-> laid.layoutHeight]
           /\ persisted' = PersistedState(laid.savedPositions, NoPan, DefaultScale)
           /\ edges' = drawEdges(graphData, visibleNodes, MapKeys(laid.nodeState))
    /\ placed' = PlacedBy(graphData, savedPositions, reset)
    /\ passes' = PassesOfLayout(reset)
    /\ dragged' = NoDrag
    /\ UNCHANGED <<graphData, visibleNodes, matchedNodes, searchValue, alerts, canvas>>
    /\ UNCHANGED <<folders, disk, pc, asked>>
    /\ UNCHANGED scanVars
    /\ UNCHANGED panelVars

CenterClick == LayoutClick(FALSE)

ResetClick == LayoutClick(TRUE)

ViewNext == Deliver \/ DragNode \/ CenterClick \/ ResetClick

ViewSpec == ViewInit /\ [][ViewNext]_vars

\* ------------------------------------------------------------------
\* Properties of the layout
\* ------------------------------------------------------------------
\* The boxes of two nodes overlap, as resolveCollisions measures it.
Overlapping(p, q) ==
    /\ Min(p.x + NodeSize.width, q.x + NodeSize.width) - Max(p.x, q.x) > 0
    /\ Min(p.y + NodeSize.height, q.y + NodeSize.height) - Max(p.y, q.y) > 0

\* The last change of a position was made by layoutNodes, not by a drag.
LaidOut == dragged.id = Undefined \/ dragged.rendered

\* C13: after layoutNodes completes, whatever the graph, the size of the
\* viewport and the saved positions, no two boxes of nodes overlap.
C13_NoOverlapAfterLayout ==
    (pc = "view" /\ LaidOut) =>
        \A a, b \in 1..Len(nodeState) :
            a # b => ~Overlapping(nodeState[a][2], nodeState[b][2])

\* The node stands at one of the places of the band of isolated nodes.
InIsolatedBand(node) ==
    \E index \in 0..(Len(nodeState) - 1) :
        LET target == IsolatedTarget(index, layoutSize.width, layoutSize.height)
        IN  node.x = target.x /\ node.y = target.y

\* The centre of the box of the node lies within the radius of the ring of
\* connected nodes around the centre of the view.
WithinCluster(node) ==
    LET dx == node.x + NodeSize.width \div 2 - layoutSize.width \div 2
        dy == node.y + NodeSize.height \div 2 - layoutSize.height \div 2
        radius == ClusterRadius(layoutSize.width, layoutSize.height)
    IN  dx * dx + dy * dy < radius * radius

\* C14: in a graph of at most LARGE_GRAPH_THRESHOLD nodes, a node of degree 0
\* that had no saved position is placed in the band of isolated nodes at the
\* bottom and not within the cluster radius of the centre.
C14_IsolatedOutsideCluster ==
    (pc = "view" /\ Len(graphData.nodes) <= LARGE_GRAPH_THRESHOLD) =>
        \A id \in placed :
            Degree(graphData, id) = 0 =>
                /\ InIsolatedBand(MapGet(nodeState, id))
                /\ ~WithinCluster(MapGet(nodeState, id))

\* C15: a node dragged to a place is at that place after the next graph
\* that still holds it is rendered, whatever the other nodes are.
C15_DraggedNodeStays ==
    (pc = "view" /\ dragged.id # Undefined /\ dragged.rendered
        /\ dragged.id \in NodeIds(graphData)) =>
        /\ MapGet(nodeState, dragged.id).x = dragged.x
        /\ MapGet(nodeState, dragged.id).y = dragged.y

\* C16: after every renderGraph neither savedPositions nor the state given
\* to vscode.setState holds a position of a node id the graph lacks.
C16_NoPositionOfAbsentNode ==
    pc = "view" =>
        /\ MapKeys(savedPositions) \subseteq NodeIds(graphData)
        /\ MapKeys(persisted.positions) \subseteq NodeIds(graphData)

\* ------------------------------------------------------------------
\* The webview from its default view: zoom, wheel, pan, centre and reset
\* ------------------------------------------------------------------
\* The deltas of the zoom buttons, in hundredths.
ZoomClicks == {15, 0 - 15}

\* Where the pointer is on the canvas when the wheel turns.
WheelAnchors == {[given |-> TRUE, x |-> 300, y |-> 200]}

\* How far a drag of the canvas moves the pointer.
PanMoves == {[x |-> 30, y |-> 0 - 20], [x |-> 0 - 50, y |-> 10]}

ZoomInit ==
    /\ ScanAtRest
    /\ PanelAtRest
    /\ pc = "zoom"
    /\ graphData = EmptyGraph
    /\ nodeState = <<>>
    /\ visibleNodes = {}
    /\ matchedNodes = {}
    /\ searchValue = <<>>
    /\ edges = <<>>
    /\ alerts = <<>>
    /\ LayoutAtRest(WideCanvas)

\* zoomBy(delta, options) with its persistState and drawEdges.
Zoom(delta, anchor) ==
    /\ \/ pc = "zoom" /\ gestures < MaxZooms
       \/ pc = "ui" /\ gestures < MaxUiGestures
    /\ gestures' = gestures + 1
    /\ asked' = scale + delta
    /\ LET zoomed == zoomBy(scale, pan, delta, anchor)
       IN  /\ scale' = zoomed.scale
           /\ pan' = zoomed.pan
           /\ persisted' = PersistedState(savedPositions, zoomed.pan, zoomed.scale)
    /\ edges' = drawEdges(graphData, visibleNodes, MapKeys(nodeState))
    /\ UNCHANGED <<graphData, nodeState, visibleNodes, matchedNodes, searchValue, alerts>>
    /\ UNCHANGED <<canvas, layoutSize, savedPositions, dragged, placed, passes>>
    /\ UNCHANGED <<folders, disk, pc>>
    /\ UNCHANGED scanVars
    /\ UNCHANGED panelVars

\* A click on the zoom in or the zoom out button.
ZoomClick == \E delta \in ZoomClicks : Zoom(delta, NoAnchor)

\* wheelHandler: a step of 0.06 with ctrlKey and of 0.1 without, down when
\* deltaY > 0, anchored at the pointer.
Wheel ==
    \E ctrlKey \in BOOLEAN, down \in BOOLEAN, anchor \in WheelAnchors :
        LET step == IF ctrlKey THEN 6 ELSE 10
        IN  Zoom(IF down THEN 0 - step ELSE step, anchor)

\* A drag of the canvas: pointerdown, the last pointermove and pointerup.
PanDrag ==
    /\ \/ pc = "zoom" /\ gestures < MaxZooms
       \/ pc = "ui" /\ gestures < MaxUiGestures
    /\ gestures' = gestures + 1
    /\ \E move \in PanMoves :
          /\ pan' = [x |-> pan.x + move.x, y |-> pan.y + move.y]
          /\ persisted' = PersistedState(savedPositions, pan', scale)
    /\ UNCHANGED <<graphData, nodeState, visibleNodes, matchedNodes, searchValue, edges, alerts>>
    /\ UNCHANGED <<canvas, scale, layoutSize, savedPositions, dragged, placed, passes, asked>>
    /\ UNCHANGED <<folders, disk, pc>>
    /\ UNCHANGED scanVars
    /\ UNCHANGED panelVars

ZoomNext == ZoomClick \/ Wheel \/ PanDrag \/ CenterClick \/ ResetClick

ZoomSpec == ZoomInit /\ [][ZoomNext]_vars

UiInit ==
    /\ ScanAtRest
    /\ PanelAtRest
    /\ pc = "ready"
    /\ graphData = EmptyGraph
    /\ nodeState = <<>>
    /\ visibleNodes = {}
    /\ matchedNodes = {}
    /\ searchValue = <<>>
    /\ edges = <<>>
    /\ alerts = <<>>
    /\ LayoutAtRest(WideCanvas)

\* The webview has posted 'ready' and the panel answers with the graph:
\* renderGraph(message.data).
UiLoad ==
    /\ pc = "ready"
    /\ pc' = "ui"
    /\ \E graph \in ViewGraphs :
          /\ renderGraph(graph)
          /\ placed' = PlacedBy(graph, KeepCurrent(savedPositions, graph), FALSE)
          /\ passes' = PassesOfRender(graph)
    /\ UNCHANGED <<folders, disk, dragged, gestures, asked>>
    /\ UNCHANGED scanVars
    /\ UNCHANGED panelVars

UiNext ==
    \/ UiLoad
    \/ Search
    \/ DragNode
    \/ ZoomClick
    \/ PanDrag
    \/ CenterClick
    \/ ResetClick

UiSpec == UiInit /\ [][UiNext]_vars

\* state.data of every entry of nodeState is the node of graphData with the
\* id of the entry, as renderGraph delivered it.
DataAsDelivered ==
    \A i \in 1..Len(nodeState) :
        \E k \in 1..Len(graphData.nodes) :
            /\ graphData.nodes[k].id = nodeState[i][1]
            /\ nodeState[i][2].data = graphData.nodes[k]

\* C21: between two renderGraph calls no presentation operation (layout,
\* collision resolution, drag, pan, zoom, search, centre, reset) changes the
\* received graph: nodes, relationships and warnings stay as delivered.
C21_GraphContentUntouched ==
    /\ [](pc = "ui" => DataAsDelivered)
    /\ [][graphData' = graphData \/ UiLoad]_vars

\* A graph was rendered, then a node dragged, the view zoomed and a search made.
C21_Witness ==
    /\ pc = "ui"
    /\ graphData.relationships # <<>>
    /\ dragged.id # Undefined
    /\ scale # DefaultScale
    /\ searchValue # <<>>
    /\ visibleNodes # NodeIds(graphData)

\* ------------------------------------------------------------------
\* One file scanned alone: the class classifier, the relationship vocabulary
\* and the resolution of the target
\* ------------------------------------------------------------------
sBasemodel == <<"B", "a", "s", "e", "m", "o", "d", "e", "l">>

sUpperBaseModel == <<"B", "A", "S", "E", "M", "O", "D", "E", "L">>

sBase == <<"B", "a", "s", "e">>

sExtBlogComment == <<"E", "x", "t", "\\", "B", "l", "o", "g", "\\", "C", "o", "m", "m", "e", "n", "t">>

\* use Ext\Blog\Comment;
UseExtComment == <<[fqcn |-> sExtBlogComment, alias |-> Undefined]>>

\* use Illuminate\Database\Eloquent\Model as Base;
UseModelAsBase == <<[fqcn |-> sEloquentModel, alias |-> sBase]>>

FileUses == {NoUses, UseExtComment, UseModelAsBase}

FileNamespaces == {Undefined, sApp}

\* What the class of the file extends.
FileParents == {sModel, sBaseModel, sBasemodel, sUpperBaseModel, sController, sBase}

\* The helper names the regular expression of extractRelationships matches.
Vocabulary ==
    {sHasOneThrough, sHasManyThrough, sHasOne, sHasMany, sBelongsToMany, sBelongsTo,
     sMorphOne, sMorphMany, sMorphToMany, sMorphedByMany, sMorphTo}

\* The class references before ::class: Comment, \Comment, Ext\Comment, \\Ext\Comment.
ClassRefs == {sComment, <<"\\", "C", "o", "m", "m", "e", "n", "t">>, <<"E", "x", "t", "\\", "C", "o", "m", "m", "e", "n", "t">>, <<"\\", "\\", "E", "x", "t", "\\", "C", "o", "m", "m", "e", "n", "t">>}

\* What follows ::class in the call: `)` or `, 'post_id')`.
CallRests == {<<")">>, <<",", " ", "'", "p", "o", "s", "t", "_", "i", "d", "'", ")">>}

\* A file entry that holds its own text.
TextFile(name, text) ==
    [name |-> name, kind |-> "file", readable |-> TRUE, entries |-> <<>>, file |-> 0,
     text |-> text]

\* class Post extends <parent> with the method comments() that returns
\* $this-><relation>(<ref>::class<rest>; ref and rest are kept beside the call.
FileText(namespace, uses, parent, relation, ref, rest) ==
    [namespace |-> namespace, uses |-> uses,
     class |-> <<[name |-> sPost, parent |-> parent]>>,
     methods |-> <<[method |-> "comments", relation |-> relation,
                    call |-> ref \o sClassLiteral \o rest, ref |-> ref, rest |-> rest]>>]

FileInit ==
    /\ \E namespace \in FileNamespaces, uses \in FileUses, parent \in FileParents,
          relation \in Vocabulary, ref \in ClassRefs, rest \in CallRests :
          disk = DirEntry(nWorkspace, TRUE,
                          <<TextFile(nPostPhp,
                                     FileText(namespace, uses, parent, relation, ref, rest))>>)
    /\ folders = <<RootPath>>
    /\ pc = "idle"
    /\ phpFiles = <<>>
    /\ fileIndex = 1
    /\ scan = EmptyScan
    /\ outcome = Pending
    /\ promoted = {}
    /\ graphData = EmptyGraph
    /\ nodeState = <<>>
    /\ visibleNodes = {}
    /\ matchedNodes = {}
    /\ searchValue = <<>>
    /\ edges = <<>>
    /\ alerts = <<>>
    /\ PanelAtRest
    /\ LayoutAtRest(WideCanvas)

FileNext == StartScan \/ ScanFile \/ ReturnScan

FileSpec == FileInit /\ [][FileNext]_vars

\* The text of the file of the workspace.
TheText == disk.entries[1].text

TheMethod == TheText.methods[1]

\* The parent is on the allow-list, directly or through an import.
OnAllowList(parentRaw, useMap) ==
    LET normalized == normalizeClassName(parentRaw)
        baseName == getClassBaseName(normalized)
        imported == Or(MapGet(useMap, normalized), MapGet(useMap, baseName))
    IN  \/ normalized \in allowedParents
        \/ baseName \in allowedParents
        \/ /\ Truthy(imported)
           /\ \/ normalizeClassName(imported) \in allowedParents
              \/ getClassBaseName(imported) \in allowedParents

\* The scan of the file is over and it returned a graph.
FileScanned == pc = "settled" /\ outcome.kind = "fulfilled" /\ outcome.result.error = NoError

\* The graph holds the class of the file as a model.
ClassIsModel ==
    \E i \in 1..Len(outcome.result.nodes) :
        /\ outcome.result.nodes[i].name = sPost
        /\ ~outcome.result.nodes[i].isExternal

\* C22: the suffix heuristic is case-sensitive: a class whose parent is not on
\* the allow-list is a model exactly when the simple name of the parent ends
\* with the literal "Model"; "model" or "MODEL" do not make it a model.
C22_SuffixIsCaseSensitive ==
    (FileScanned /\ ~OnAllowList(TheText.class[1].parent, extractUseStatements(TheText))) =>
        (ClassIsModel <=> endsWith(getClassBaseName(TheText.class[1].parent), sModel))

\* The row of the table of helper names: label, source cardinality, target
\* cardinality.
RelationTable(name) ==
    CASE name \in {sHasOne, sMorphOne, sHasOneThrough} -> <<sOneToOne, "one", "one">>
      [] name \in {sBelongsTo, sMorphTo} -> <<sOneToOne, "many", "one">>
      [] name \in {sHasMany, sMorphMany, sHasManyThrough} -> <<sOneToMany, "one", "many">>
      [] name \in {sBelongsToMany, sMorphToMany, sMorphedByMany} -> <<sManyToMany, "many", "many">>
      [] OTHER -> <<name, "one", "one">>

\* C23: the label, the source cardinality and the target cardinality of an
\* extracted relationship are the row of its helper name in the table, and a
\* name outside the vocabulary gives (the name itself, one, one).
C23_RelationInfoFollowsTable ==
    FileScanned =>
        \A i \in 1..Len(outcome.result.relationships) :
            LET rel == outcome.result.relationships[i]
                other == getClassBaseName(rel.target)
                info == mapRelationInfo(other)
            IN  /\ rel.relation = TheMethod.relation
                /\ <<rel.type, rel.sourceCardinality, rel.targetCardinality>>
                       = RelationTable(rel.relation)
                /\ other \notin Vocabulary
                /\ <<info.label, info.sourceCardinality, info.targetCardinality>>
                       = <<other, "one", "one">>

\* A belongsTo was extracted: One To One, many on the source side.
C23_Witness ==
    /\ FileScanned
    /\ \E i \in 1..Len(outcome.result.relationships) :
          /\ outcome.result.relationships[i].relation = sBelongsTo
          /\ outcome.result.relationships[i].type = sOneToOne
          /\ outcome.result.relationships[i].sourceCardinality = "many"
          /\ outcome.result.relationships[i].targetCardinality = "one"

\* The target the fixed order gives for a class reference: leading separators
\* removed, the import of the exact name, else of the simple name, else the
\* reference when it holds a separator, else the namespace prefixed, else the
\* reference.
ExpectedTarget(ref, useMap, namespace) ==
    LET RECURSIVE Strip(_)
        Strip(s) == IF s # <<>> /\ Head(s) = Sep THEN Strip(Tail(s)) ELSE s
        classRef == Strip(ref)
        seps == {k \in 1..Len(classRef) : classRef[k] = Sep}
        simple == IF seps = {} THEN classRef
                  ELSE SubSeq(classRef, (CHOOSE k \in seps : \A j \in seps : j <= k) + 1,
                              Len(classRef))
    IN  IF MapHas(useMap, classRef) THEN Strip(MapGet(useMap, classRef))
        ELSE IF MapHas(useMap, simple) THEN Strip(MapGet(useMap, simple))
        ELSE IF seps # {} THEN classRef
        ELSE IF namespace # Undefined /\ namespace # <<>>
        THEN namespace \o <<Sep>> \o classRef
        ELSE classRef

\* C24: the target of a relationship whose first argument is ClassRef::class
\* is resolved in the fixed order (leading separators removed; import of the
\* exact reference, else of its simple name; else the reference if it holds a
\* separator; else the namespace of the model prefixed; else the reference),
\* whatever follows the first comma.
C24_TargetResolvedInOrder ==
    FileScanned /\ ClassIsModel =>
        /\ Len(outcome.result.relationships) = 1
        /\ outcome.result.relationships[1].target
               = ExpectedTarget(TheMethod.ref, extractUseStatements(TheText),
                                TheText.namespace)

\* `\\Ext\Comment::class, 'post_id'` in a model of namespace App with no
\* import: the reference holds a separator and is the target.
C24_Witness ==
    /\ FileScanned
    /\ ClassIsModel
    /\ TheMethod.ref = <<"\\", "\\", "E", "x", "t", "\\", "C", "o", "m", "m", "e", "n", "t">>
    /\ Len(TheMethod.rest) > 1
    /\ TheText.namespace = sApp
    /\ TheText.uses = NoUses
    /\ Len(outcome.result.relationships) = 1
    /\ outcome.result.relationships[1].target
           = <<"E", "x", "t", "\\", "C", "o", "m", "m", "e", "n", "t">>

ConnectedIds == {id \in NodeIds(graphData) : Degree(graphData, id) > 0}

StandsAt(id, target) ==
    MapGet(nodeState, id).x = target.x /\ MapGet(nodeState, id).y = target.y

\* The ring index at which a connected node stands, 0 being the centre.
RingIndexOf(id) ==
    {k \in 0..(Cardinality(ConnectedIds) - 1) :
        StandsAt(id, ConnectedTarget(k, Cardinality(ConnectedIds),
                                     layoutSize.width, layoutSize.height))}

\* The last layout computed the position of every node: a reset, or no
\* saved position.
FromScratch ==
    /\ pc = "view"
    /\ LaidOut
    /\ graphData.nodes # <<>>
    /\ placed = NodeIds(graphData)

LabelOfSides(edge) ==
    LET rels == ContributingTo(edge)
        fromMany == AnyMarksMany(rels, edge.fromId, TRUE)
        toMany == AnyMarksMany(rels, edge.toId, FALSE)
    IN  IF fromMany /\ toMany THEN sManyToMany
        ELSE IF fromMany \/ toMany THEN sOneToMany
        ELSE sOneToOne

\* C27: drawEdges draws exactly one edge for every unordered pair of node ids
\* with at least one visible relationship, whatever their number and
\* direction, and none for another pair; the label of the edge is the one of
\* the merged cardinalities of its sides (many and many: Many To Many; one
\* side many: One To Many; else One To One).
C27_OneLabelledEdgePerPair ==
    pc = "drawn" =>
        /\ \A a, b \in NodeIds(graphData) :
              Cardinality({i \in 1..Len(edges) : {edges[i].fromId, edges[i].toId} = {a, b}})
                  = IF \E k \in 1..Len(Contributing) :
                           {Contributing[k].source, Contributing[k].target} = {a, b}
                    THEN 1 ELSE 0
        /\ \A i \in 1..Len(edges) : edges[i].label = LabelOfSides(edges[i])

\* Two hasMany between the same two models, one in each direction, drawn as
\* one edge labelled Many To Many, the type of neither.
C27_Witness ==
    /\ pc = "drawn"
    /\ Len(graphData.relationships) = 2
    /\ graphData.relationships[1].source = graphData.relationships[2].target
    /\ graphData.relationships[1].target = graphData.relationships[2].source
    /\ graphData.relationships[1].source # graphData.relationships[1].target
    /\ graphData.relationships[1].type = sOneToMany
    /\ graphData.relationships[2].type = sOneToMany
    /\ Len(edges) = 1
    /\ edges[1].label = sManyToMany

\* C28: after layoutNodes completes on a graph with nodes, savedPositions
\* holds for every node of the graph, dragged or not, the position the node
\* stands at; so the layoutNodes of a later renderGraph computes a position
\* only for nodes that were not in the graph before.
C28_EveryNodeSaved ==
    /\ []((pc = "view" /\ LaidOut /\ graphData.nodes # <<>>) =>
            \A id \in NodeIds(graphData) :
                /\ MapHas(nodeState, id)
                /\ MapHas(savedPositions, id)
                /\ MapGet(savedPositions, id).x = MapGet(nodeState, id).x
                /\ MapGet(savedPositions, id).y = MapGet(nodeState, id).y)
    /\ [][(graphData.nodes # <<>> /\ Deliver) => placed' \cap NodeIds(graphData) = {}]_vars

\* A graph rendered again with one more node after a drag of one of its
\* nodes: only the new node was given a computed position, every node is saved.
C28_Witness ==
    /\ pc = "view"
    /\ dragged.id # Undefined
    /\ dragged.rendered
    /\ Cardinality(placed) = 1
    /\ Len(graphData.nodes) = 3
    /\ MapKeys(savedPositions) = NodeIds(graphData)
    /\ \A id \in NodeIds(graphData) :
          /\ MapGet(savedPositions, id).x = MapGet(nodeState, id).x
          /\ MapGet(savedPositions, id).y = MapGet(nodeState, id).y

\* The positions in phpFiles of the files that declare the model id.
Declaring(id) == {j \in 1..Len(phpFiles) : DeclaredId(phpFiles[j]) = id}

\* The methods of a file that return a relationship helper.
RelationMethods(file) ==
    SelectSeq(readFile(disk, RootPath, file).value.methods, LAMBDA m : m.relation # Undefined)

\* C29: when two files of the scan declare the same model id, the returned
\* graph has one node of that id, no placeholder, with the filePath and the
\* relativePath of the file scanned last, and it keeps the relationships of
\* every one of the files, each with the id as source and the file that
\* declares it as filePath.
C29_LastDeclarationWins ==
    Returned =>
        \A i, j \in 1..Len(phpFiles) :
            (i < j /\ DeclaredId(phpFiles[i]) # Undefined
                   /\ DeclaredId(phpFiles[i]) = DeclaredId(phpFiles[j])) =>
                LET id == DeclaredId(phpFiles[i])
                    last == CHOOSE k \in Declaring(id) : \A l \in Declaring(id) : l <= k
                    hits == NodesWithId(outcome.result.nodes, id)
                IN  /\ Cardinality(hits) = 1
                    /\ \A n \in hits :
                          /\ ~outcome.result.nodes[n].isExternal
                          /\ outcome.result.nodes[n].filePath = phpFiles[last]
                          /\ outcome.result.nodes[n].relativePath
                                 = SubSeq(phpFiles[last], Len(RootPath) + 1, Len(phpFiles[last]))
                    /\ \A k \in Declaring(id) :
                          LET kept == SelectSeq(outcome.result.relationships,
                                                LAMBDA rel : rel.filePath = phpFiles[k])
                              declared == RelationMethods(phpFiles[k])
                          IN  /\ Len(kept) = Len(declared)
                              /\ \A n \in 1..Len(kept) :
                                    /\ kept[n].method = declared[n].method
                                    /\ kept[n].relation = declared[n].relation
                                    /\ kept[n].source = id

\* Two files that declare App\Post were scanned: the node carries the later
\* file and the graph the three relationships of the two.
C29_Witness ==
    /\ Returned
    /\ \E i, j \in 1..Len(phpFiles) :
          /\ i < j
          /\ DeclaredId(phpFiles[i]) # Undefined
          /\ DeclaredId(phpFiles[i]) = DeclaredId(phpFiles[j])
          /\ \E n \in NodesWithId(outcome.result.nodes, DeclaredId(phpFiles[i])) :
                /\ outcome.result.nodes[n].filePath = phpFiles[j]
                /\ outcome.result.nodes[n].filePath # phpFiles[i]
          /\ Cardinality({n \in 1..Len(outcome.result.relationships) :
                 outcome.result.relationships[n].source = DeclaredId(phpFiles[i])}) = 3

\* The rearrangements of the positions of a list.
Rearrangements(n) == {p \in [1..n -> 1..n] : \A i, j \in 1..n : p[i] = p[j] => i = j}

\* The ends, the cardinalities of the sides and the label of the edges.
EdgeFacts(drawn) ==
    {[fromId |-> drawn[i].fromId, toId |-> drawn[i].toId,
      sourceCardinality |-> drawn[i].sourceCardinality,
      targetCardinality |-> drawn[i].targetCardinality,
      label |-> drawn[i].label] : i \in 1..Len(drawn)}

\* C30: the cardinalities of the two sides and the label of every edge are
\* the same for every order of the relationships in graphData.relationships.
C30_MergeIgnoresOrder ==
    pc = "drawn" =>
        \A p \in Rearrangements(Len(graphData.relationships)) :
            LET shuffled == [graphData EXCEPT
                                !.relationships = [i \in 1..Len(graphData.relationships) |->
                                                      graphData.relationships[p[i]]]]
            IN  EdgeFacts(drawEdges(shuffled, visibleNodes, MapKeys(nodeState)))
                    = EdgeFacts(edges)

\* A hasOne followed by a belongsToMany of the same direction between two
\* models, drawn as one edge with many on both sides.
C30_Witness ==
    /\ pc = "drawn"
    /\ Len(graphData.relationships) = 2
    /\ graphData.relationships[1].source = graphData.relationships[2].source
    /\ graphData.relationships[1].target = graphData.relationships[2].target
    /\ graphData.relationships[1].source # graphData.relationships[1].target
    /\ graphData.relationships[1].relation = sHasOne
    /\ graphData.relationships[2].relation = sBelongsToMany
    /\ Len(edges) = 1
    /\ edges[1].sourceCardinality = "many"
    /\ edges[1].targetCardinality = "many"
    /\ edges[1].label = sManyToMany

====
